---- MODULE Spec2Model ----
(***************************************************************************)
(* Model of deaduction.pylib.server: the ServerQueue (serialised tasks     *)
(* with timeout, retry and cancellation) and the ServerInterface           *)
(* (pending requests keyed by sequence number, dispatch of Lean messages). *)
(* Spec is the ServerQueue given tasks whose function is arbitrary;        *)
(* ServerSpec is the ServerInterface, whose methods the queue runs one at  *)
(* a time.                                                                 *)
(***************************************************************************)
EXTENDS Integers, Sequences, FiniteSets, TLC

\* ------------------------------------------------------------------ bounds
MaxTasks == 3        \* tasks added to the ServerQueue
MaxCalls == 3        \* calls of set_exercise, code_insert, __get_initial_proof_states
MaxMsgs == 2         \* Lean messages handled by the ServerInterface
MaxGoals == 1        \* goals announced by a "targets #:" message
MaxSteps == 3        \* operations on the tree after the typed ones
MaxDirect == 1       \* operations that may precede a call of insert_if_you_can
MaxTime == 40        \* trio's clock stops there
TickLen == 5         \* the clock is observed every TickLen seconds
MaxClockTasks == 1   \* tasks added to the queue while the clock runs
MaxStatements == 21  \* statements in the list given to set_statements
MaxSets == 1         \* calls of set_statements
MaxClockCalls == 1   \* calls of the ServerInterface while the clock runs

\* ------------------------------------------------------- program constants
TIMEOUT == 10
STARTING_TIMEOUT == 20
NB_TRIALS == 2
MAX_CAPACITY == 10

NoReq == 0           \* "no request" in a response (None)
\* cancel_scope = None (line 99).
NoScope == [deadline |-> -1, task |-> 0, cancel_called |-> FALSE]

VARIABLES
    queue,            \* ServerQueue (a list): the waiting tasks, queue[1] = self[0]
    is_busy,          \* ServerQueue.is_busy
    started,          \* ServerQueue.started
    actual_timeout,   \* ServerQueue.actual_timeout
    queue_ended,      \* ServerQueue.queue_ended: "None", or a trio.Event "unset"/"set"
    tasks,            \* every task ever added: its arguments, its coroutine's position
    startOrder,       \* history: the tasks in the order task_with_timeout began them
    emitted,          \* history: the LeanResponse objects emitted on lean_response
    request_seq_num,  \* ServerInterface.request_seq_num
    pending_requests, \* ServerInterface.pending_requests: key -> request object
    requests,         \* the HighLevelServerRequest objects created so far
    error_chan,       \* ServerInterface.error_send / error_recv memory channel
    lean_file,        \* ServerInterface.lean_file: "None" or a "LeanFile"
    call,             \* the method of the ServerInterface in flight, and its request
    sent,             \* the sequence numbers of the SyncRequests sent to Lean
    last_call,        \* history: the last step of the ServerInterface, the
                      \* sequence number of the message it handled, and the
                      \* exception it raised ("no": none)
    nb_msgs,          \* history: number of Lean messages handled
    tree,             \* the nodes of the MarkedPatternMathObject under
                      \* construction; tree[Root] is the target metavariable
    cache,            \* the root's _current_index_in_total_list
    tcall,            \* history: the last operation on the tree, its fragment,
                      \* what it returned (0: None) and the exception raised
    typed,            \* the operations the user asked for and that are
                      \* still to be done, before any other
    steps,            \* the number of operations done after those
    now,              \* trio.current_time()
    cancel_scope,     \* ServerQueue.cancel_scope: NoScope (None), or the
                      \* deadline and the cancel_called flag of the scope
                      \* and, as history, the task whose attempt opened it
    idle_since,       \* history: the time of the last backend activity, or
                      \* of the opening of the scope if that is later
    args              \* history: the statements handed to each task that
                      \* set_statements added

qvars == <<queue, is_busy, started, actual_timeout, queue_ended, tasks,
           startOrder>>
svars == <<request_seq_num, pending_requests, requests, error_chan, lean_file,
           call, sent, nb_msgs>>
vars == <<queue, is_busy, started, actual_timeout, queue_ended, tasks,
          startOrder, emitted, request_seq_num, pending_requests, requests,
          error_chan, lean_file, call, sent, last_call, nb_msgs,
          tree, cache, tcall, typed, steps, now, cancel_scope, idle_since,
          args>>

tvars == <<tree, cache, tcall, typed, steps>>
cvars == <<now, cancel_scope, idle_since>>

Last(s) == s[Len(s)]
Front(s) == SubSeq(s, 1, Len(s) - 1)
Range(s) == {s[i] : i \in 1..Len(s)}

TaskIds == 1..Len(tasks)
\* The coroutines task_with_timeout handed to the nursery and not yet begun.
Scheduled == {t \in TaskIds : tasks[t].state = "scheduled"}
\* The coroutines task_with_timeout inside their while loop.
Executing == {t \in TaskIds : tasks[t].state = "await"}

\* cursor_pos = None (line 109) and _current_index_in_total_list = None
\* (line 111); an assigned_math_object of None is 0 (no node).
NoPos == -2
NoIdx == -2
Root == 1

\* A PatternMathObject: mv tells a MarkedMetavar from another node; kind and
\* ch are its own node and children (_node, _children), am its
\* assigned_math_object, value the characters of a NUMBER.
PMO(kind, ch, value) ==
    [mv |-> FALSE, kind |-> kind, ch |-> ch, am |-> 0, value |-> value,
     cursor_pos |-> NoPos]

\* MarkedMetavar(math_type=..), unassigned and unmarked.
MarkedMetavar ==
    [mv |-> TRUE, kind |-> "METAVAR", ch |-> <<>>, am |-> 0, value |-> <<>>,
     cursor_pos |-> NoPos]

NoTreeCall == [op |-> "init", frag |-> "none", res |-> 0, raised |-> "no"]

\* The server before its first request.
ServerInit ==
    /\ queue = <<>>
    /\ is_busy = FALSE
    /\ started = FALSE
    /\ actual_timeout = TIMEOUT
    /\ queue_ended = "None"
    /\ tasks = <<>>
    /\ startOrder = <<>>
    /\ emitted = <<>>
    /\ request_seq_num = -1
    /\ pending_requests = [k \in {} |-> NoReq]
    /\ requests = <<>>
    /\ error_chan = <<>>
    /\ lean_file = "None"
    /\ call = [kind |-> "none", req |-> NoReq]
    /\ sent = {}
    /\ last_call = [op |-> "init", arg |-> 0, raised |-> "no"]
    /\ nb_msgs = 0
    /\ now = 0
    /\ cancel_scope = NoScope
    /\ idle_since = 0
    /\ args = [t \in {} |-> <<>>]

Init ==
    /\ tree = <<[MarkedMetavar EXCEPT !.cursor_pos = 0]>>
    /\ cache = NoIdx
    /\ tcall = NoTreeCall
    /\ typed = <<>>
    /\ steps = 0
    /\ ServerInit

\* =========================================================== ServerQueue

\* The (fct, cancel_fct, args) tuple of add_task, with the position of the
\* coroutine that runs it (state, nb) and, as history, the tasks that were
\* waiting when it was added and the record of its attempts.
NewTask(cancel_fct, on_top) ==
    [state |-> "queued", on_top |-> on_top, cancel_fct |-> cancel_fct,
     nb |-> 0, waiting |-> Range(queue), attempts |-> <<>>]

\* Mutant of put_in_list: the two branches exchanged.
put_in_list_exchanged(q, t, on_top) ==
    IF on_top THEN <<t>> \o q ELSE Append(q, t)

\* add_task, lines 113-118: list.append for on_top, list.insert(0, ..) otherwise.
put_in_list(q, t, on_top) ==
    IF on_top THEN Append(q, t) ELSE <<t>> \o q

\* Mutant of next_task: the event queue_ended is not set when no task is left.
next_task_silent(q, ts, busy, ended) ==
    IF Len(q) > 0
    THEN /\ queue' = Front(q)
         /\ tasks' = [ts EXCEPT ![Last(q)].state = "scheduled"]
         /\ is_busy' = busy
         /\ queue_ended' = ended
    ELSE /\ queue' = q
         /\ tasks' = ts
         /\ is_busy' = FALSE
         /\ queue_ended' = ended

\* next_task: list.pop() takes the LAST element; start_soon hands the coroutine
\* to the nursery. q, ts, busy, ended: the attributes as the caller left them.
next_task(q, ts, busy, ended) ==
    IF Len(q) > 0
    THEN /\ queue' = Front(q)
         /\ tasks' = [ts EXCEPT ![Last(q)].state = "scheduled"]
         /\ is_busy' = busy
         /\ queue_ended' = ended
    ELSE /\ queue' = q
         /\ tasks' = ts
         /\ is_busy' = FALSE
         /\ queue_ended' = "set"

\* Mutant of may_start_now: add_task starts the task whether busy or not.
may_start_now_always == TRUE

\* add_task's test "if not self.is_busy".
may_start_now == ~is_busy

add_task(cancel_fct, on_top) ==
    LET t == Len(tasks) + 1
        q1 == put_in_list(queue, t, on_top)
        ts1 == Append(tasks, NewTask(cancel_fct, on_top))
    IN  /\ IF may_start_now
           THEN next_task(q1, ts1, TRUE, "unset")
           ELSE /\ queue' = q1
                /\ tasks' = ts1
                /\ UNCHANGED <<is_busy, queue_ended>>
        /\ UNCHANGED <<started, actual_timeout, startOrder, emitted, last_call>>
        /\ UNCHANGED svars
        /\ UNCHANGED tvars
        /\ UNCHANGED cvars
        /\ UNCHANGED args

\* ======================================= ServerQueue.task_with_timeout

\* LeanResponse(error_type=.., error_list=.., analyses=..) as emitted on the
\* lean_response signal; req is the request whose proof_step it carries.
LeanResponse(error_type, req, error_list, analyses) ==
    [error_type |-> error_type, req |-> req, error_list |-> error_list,
     analyses |-> analyses]

\* Lines 188 and 202: LeanResponse(error_type=3)
TimeoutResponse == LeanResponse(3, NoReq, <<>>, <<0, -1>>)

\* Lines 167-172: the timeout of a task's first attempt.
first_timeout == IF ~started THEN STARTING_TIMEOUT ELSE TIMEOUT

\* Mutant of next_timeout: the timeout is not doubled.
next_timeout_same(timeout) == timeout

\* Lines 185 and 198: self.actual_timeout = 2 * self.actual_timeout
next_timeout(timeout) == 2 * timeout

\* The loop test "while nb < self.NB_TRIALS".
tries_again(nb) == nb < NB_TRIALS

\* Mutant of definitively_cancelled: the test is off by one.
definitively_cancelled_late(nb) == nb > NB_TRIALS

\* Lines 186 and 199: "if nb == self.NB_TRIALS", the task is abandoned.
definitively_cancelled(nb) == nb = NB_TRIALS

\* Mutant of calls_cancel_fct: cancel_fct is called after the last attempt too.
calls_cancel_fct_always(task, nb) == task.cancel_fct

\* Lines 190-192 and 204-206: "else: if cancel_fct: cancel_fct()".
calls_cancel_fct(task, nb) == ~definitively_cancelled(nb) /\ task.cancel_fct

\* One pass of the loop body up to "await fct(*args)": nb += 1, the cancel
\* scope is opened with the current timeout, fct runs to its first await.
begin_attempt(task, timeout) ==
    [task EXCEPT !.state = "await",
                 !.nb = task.nb + 1,
                 !.attempts = Append(task.attempts,
                     [timeout |-> timeout, outcome |-> "pending",
                      cancel_calls |-> 0, signals |-> 0])]

\* The record of the attempt in flight, closed. outcome is "done" (fct
\* returned), "no_answer" (the cancel scope expired, or a TypeError was
\* caught: the two are handled by the same statements) or "error" (another
\* exception); cancel_calls: the calls of cancel_fct after it; signals: the
\* emissions of timeout_signal after it.
end_attempt(task, outcome, cancel_called, signal) ==
    [task EXCEPT !.attempts[task.nb].outcome = outcome,
                 !.attempts[task.nb].cancel_calls =
                     IF cancel_called THEN 1 ELSE 0,
                 !.attempts[task.nb].signals = IF signal THEN 1 ELSE 0]

\* "with trio.move_on_after(self.actual_timeout) as self.cancel_scope"
\* (lines 176-177) in the attempt of task t.
move_on_after(timeout, t) ==
    [deadline |-> now + timeout, task |-> t, cancel_called |-> FALSE]

\* The nursery begins a coroutine handed over by start_soon: lines 166-180.
TaskBegins(t) ==
    /\ tasks[t].state = "scheduled"
    /\ started' = TRUE
    /\ actual_timeout' = first_timeout
    /\ tasks' = [tasks EXCEPT
           ![t] = begin_attempt([tasks[t] EXCEPT !.nb = 0], first_timeout)]
    /\ startOrder' = Append(startOrder, t)
    /\ cancel_scope' = move_on_after(first_timeout, t)
    /\ idle_since' = now
    /\ UNCHANGED <<queue, is_busy, queue_ended, emitted, last_call, now,
                   args>>
    /\ UNCHANGED svars
    /\ UNCHANGED tvars

\* Lines 182-192 (cancelled_caught) and 195-206 (except TypeError), then the
\* loop test and either another pass or next_task (line 209).
no_answer(t) ==
    LET task == tasks[t]
        nb == task.nb
        closed == end_attempt(task, "no_answer", calls_cancel_fct(task, nb),
                              definitively_cancelled(nb))
    IN  /\ task.state = "await"
        /\ actual_timeout' = next_timeout(actual_timeout)
        /\ emitted' = IF definitively_cancelled(nb)
                      THEN Append(emitted, TimeoutResponse)
                      ELSE emitted
        /\ IF tries_again(nb)
           THEN /\ tasks' = [tasks EXCEPT ![t] =
                       begin_attempt(closed, next_timeout(actual_timeout))]
                /\ cancel_scope' =
                       move_on_after(next_timeout(actual_timeout), t)
                /\ idle_since' = now
                /\ UNCHANGED <<queue, is_busy, queue_ended>>
           ELSE next_task(queue,
                          [tasks EXCEPT ![t] = [closed EXCEPT !.state = "done"]],
                          is_busy, queue_ended)
                /\ UNCHANGED <<cancel_scope, idle_since>>
        /\ UNCHANGED <<started, startOrder, last_call, now, args>>
        /\ UNCHANGED svars
        /\ UNCHANGED tvars

\* trio.move_on_after expires while fct is suspended.
AttemptTimesOut(t) == no_answer(t)

\* A TypeError comes out of "await fct(*args)".
AttemptTypeError(t) == no_answer(t)

\* Any other exception comes out of "await fct(*args)": no except clause
\* catches it, task_with_timeout ends there and line 209 is not reached.
AttemptRaises(t) ==
    /\ tasks[t].state = "await"
    /\ tasks' = [tasks EXCEPT ![t] =
           [end_attempt(tasks[t], "error", FALSE, FALSE)
               EXCEPT !.state = "crashed"]]
    /\ UNCHANGED <<queue, is_busy, started, actual_timeout, queue_ended,
                   startOrder, emitted, last_call>>
    /\ UNCHANGED svars
    /\ UNCHANGED tvars
    /\ UNCHANGED cvars
    /\ UNCHANGED args

\* fct returns inside the cancel scope: "else: break", then next_task.
AttemptCompletes(t) ==
    /\ tasks[t].state = "await"
    /\ next_task(queue,
                 [tasks EXCEPT ![t] =
                     [end_attempt(tasks[t], "done", FALSE, FALSE)
                         EXCEPT !.state = "done"]],
                 is_busy, queue_ended)
    /\ UNCHANGED <<started, actual_timeout, startOrder, emitted, last_call>>
    /\ UNCHANGED svars
    /\ UNCHANGED tvars
    /\ UNCHANGED cvars
    /\ UNCHANGED args

\* ================================== ServerInterface: registering requests

\* A HighLevelServerRequest object (ExerciseRequest, ProofStepRequest or
\* InitialProofStateRequest): its sequence number, its proof_received_event,
\* the number of goals announced by "targets #:" (-1: none yet), the number
\* of "context #:" blocks stored, and whether effective code was received.
\* nb_set is history: how many times set_proof_received was called.
NewRequest(type, n) ==
    [type |-> type, seq_num |-> n, event |-> "unset", nb_set |-> 0,
     expected |-> -1, hypo |-> 0, effective_code_received |-> FALSE]

\* The attributes of the ServerInterface that registering a request changes.
ServerState ==
    [request_seq_num |-> request_seq_num,
     pending_requests |-> pending_requests,
     requests |-> requests,
     lean_file |-> lean_file]

\* dict[key] = r
dict_set(d, key, r) ==
    [k \in DOMAIN d \cup {key} |-> IF k = key THEN r ELSE d[k]]

\* dict.pop(key)
dict_pop(d, key) ==
    [k \in DOMAIN d \ {key} |-> d[k]]

\* request.set_seq_num(n)
set_seq_num(S, r, n) ==
    [S EXCEPT !.requests[r].seq_num = n]

\* __add_pending_request: the new request is the last of S.requests.
add_pending_request(S, type) ==
    LET n == S.request_seq_num + 1
        r == Len(S.requests) + 1
    IN  [S EXCEPT !.request_seq_num = n,
                  !.pending_requests = dict_set(S.pending_requests, n, r),
                  !.requests = Append(S.requests, NewRequest(type, n))]

\* __get_response_from_request up to "await self.lean_server.send(req)":
\* the request is given self.request_seq_num (line 726).
get_response_from_request(S, r) ==
    set_seq_num(S, r, S.request_seq_num)

\* set_exercise: the ExerciseRequest is registered, its virtual file becomes
\* self.lean_file (line 878), then __get_response_from_request.
set_exercise(S) ==
    LET S1 == add_pending_request(S, "Exercise")
        S2 == [S1 EXCEPT !.lean_file = "LeanFile"]
    IN  get_response_from_request(S2, Len(S2.requests))

\* Line 1028 of code_insert calls self.lean_file.insert, which raises
\* AttributeError while self.lean_file is None.
code_insert_raises == lean_file = "None"

\* code_insert: the ProofStepRequest is registered, the code is inserted in
\* self.lean_file, then __get_response_from_request.
code_insert(S) ==
    LET S1 == add_pending_request(S, "ProofStep")
    IN  IF S.lean_file = "None"
        THEN S1
        ELSE get_response_from_request(S1, Len(S1.requests))

\* __get_initial_proof_states up to "await self.lean_server.send(req)": the
\* request is registered, then request_seq_num is incremented again (line
\* 1092) and given to the request (line 1093).
get_initial_proof_states(S) ==
    LET S1 == add_pending_request(S, "InitialProofState")
        S2 == [S1 EXCEPT !.request_seq_num = S1.request_seq_num + 1]
    IN  set_seq_num(S2, Len(S2.requests), S2.request_seq_num)

Methods == {"set_exercise", "code_insert", "get_initial_proof_states"}

\* The method, run up to its first await.
call_method(S, kind) ==
    CASE kind = "set_exercise" -> set_exercise(S)
      [] kind = "code_insert" -> code_insert(S)
      [] kind = "get_initial_proof_states" -> get_initial_proof_states(S)

NoCall == [kind |-> "none", req |-> NoReq]

\* The ServerQueue begins an attempt of a task whose fct is a method of the
\* ServerInterface; it does so only when no other attempt is in flight. The
\* method runs up to "await self.lean_server.send(req)", which sends the
\* request's file to Lean.
CallBegins(kind) ==
    /\ call = NoCall
    /\ Len(requests) < MaxCalls
    /\ LET S == call_method(ServerState, kind)
           raises == kind = "code_insert" /\ code_insert_raises
       IN  /\ request_seq_num' = S.request_seq_num
           /\ pending_requests' = S.pending_requests
           /\ requests' = S.requests
           /\ lean_file' = S.lean_file
           /\ call' = IF raises THEN NoCall
                      ELSE [kind |-> kind, req |-> Len(S.requests)]
           /\ sent' = IF raises THEN sent
                      ELSE sent \cup {S.requests[Len(S.requests)].seq_num}
           /\ last_call' = [op |-> "call", arg |-> 0,
                            raised |-> IF raises THEN "AttributeError"
                                       ELSE "no"]
    /\ UNCHANGED <<error_chan, emitted, nb_msgs>>
    /\ UNCHANGED qvars
    /\ UNCHANGED tvars
    /\ UNCHANGED cvars
    /\ UNCHANGED args

\* The attempt in flight is cancelled at its await (the cancel scope of
\* task_with_timeout expires): the method is left there.
CallCancelled ==
    /\ call # NoCall
    /\ call' = NoCall
    /\ last_call' = [op |-> "call", arg |-> 0, raised |-> "no"]
    /\ UNCHANGED <<request_seq_num, pending_requests, requests, error_chan,
                   lean_file, sent, emitted, nb_msgs>>
    /\ UNCHANGED qvars
    /\ UNCHANGED tvars
    /\ UNCHANGED cvars
    /\ UNCHANGED args

\* The suspended method may resume and return: once its request's
\* proof_received_event is set, or at once when Lean's response to the
\* SyncRequest is not "file invalidated" (resp_ok FALSE: lines 761-762, 1098).
method_returns(resp_ok) ==
    resp_ok => requests[call.req].event = "set"

\* Lines 764-772: set_exercise and code_insert empty the error channel.
drains_errors(kind) == kind \in {"set_exercise", "code_insert"}

\* Lines 778-785: "if isinstance(request, ProofStepRequest)".
emits_response(request) == request.type = "ProofStep"

\* Lines 772-784: the LeanResponse of request r, given the errors received.
response_of(r, error_list) ==
    LeanResponse(IF error_list # <<>> THEN 1 ELSE 0, r, error_list,
                 <<requests[r].hypo, requests[r].expected>>)

CallReturns(resp_ok) ==
    /\ call # NoCall
    /\ method_returns(resp_ok)
    /\ error_chan' = IF drains_errors(call.kind) THEN <<>> ELSE error_chan
    /\ emitted' = IF drains_errors(call.kind)
                     /\ emits_response(requests[call.req])
                  THEN Append(emitted, response_of(call.req, error_chan))
                  ELSE emitted
    /\ call' = NoCall
    /\ last_call' = [op |-> "call", arg |-> 0, raised |-> "no"]
    /\ UNCHANGED <<request_seq_num, pending_requests, requests, lean_file,
                   sent, nb_msgs>>
    /\ UNCHANGED qvars
    /\ UNCHANGED tvars
    /\ UNCHANGED cvars
    /\ UNCHANGED args

\* ================================ ServerInterface: messages from Lean

\* The messages Lean sends, by what __on_lean_message tests: severity error
\* with a text __filter_error passes over (LEAN_NOGOALS_TEXT,
\* LEAN_UNRESOLVED_TEXT) or another text, severity warning, and the texts
\* "context #:", "targets #:", "EFFECTIVE CODE".
MsgKinds == {"error", "error_nogoals", "warning", "context", "targets",
             "EFFECTIVE CODE"}

\* request.store_hypo_analysis(txt, line)
store_hypo_analysis(request) ==
    [request EXCEPT !.hypo = request.hypo + 1]

\* request.store_targets_analysis(txt, line): txt announces n goals.
store_targets_analysis(request, n) ==
    [request EXCEPT !.expected = n]

\* request.process_effective_code(msg)
process_effective_code(request) ==
    [request EXCEPT !.effective_code_received = TRUE]

\* request.is_complete(): one context block per announced goal was received.
is_complete(request) ==
    request.expected # -1 /\ request.hypo = request.expected

\* request.set_proof_received()
set_proof_received(request) ==
    [request EXCEPT !.event = "set", !.nb_set = request.nb_set + 1]

\* Mutant of found_complete: is_complete is not consulted.
found_complete_any(P, R, seq) == seq \in DOMAIN P

\* __check_request_complete, line 436: "if request and request.is_complete()"
found_complete(P, R, seq) ==
    seq \in DOMAIN P /\ is_complete(R[P[seq]])

\* __check_request_complete, line 437: request.set_proof_received()
release(request) == set_proof_received(request)

\* __check_request_complete(request_seq_num), on the dict P and the objects R.
check_request_complete(P, R, seq) ==
    IF found_complete(P, R, seq)
    THEN [pending_requests |-> dict_pop(P, seq),
          requests |-> [R EXCEPT ![P[seq]] = release(R[P[seq]])]]
    ELSE [pending_requests |-> P, requests |-> R]

\* Lines 465-466: the request __on_lean_message hands the message to.
request_for(seq) == pending_requests[seq]

\* __filter_error reaches its last branch (lines 644-647): the message is put
\* in the error channel, then self.proof_receive_done, an attribute that
\* __init__ does not create, is read.
error_is_recorded(request, kind) ==
    request.type = "ProofStep" /\ kind = "error"

\* Lines 491-546: what the message does to the request it is handed to.
apply_message(request, kind, n) ==
    CASE kind = "context" -> store_hypo_analysis(request)
      [] kind = "targets" -> store_targets_analysis(request, n)
      [] kind = "EFFECTIVE CODE" /\ request.type = "ProofStep" ->
             process_effective_code(request)
      [] OTHER -> request

\* __add_time_to_cancel_scope (lines 393-400), the first statement of
\* __on_lean_message (line 460) and of __on_lean_state_change (line 551).
add_time_to_cancel_scope_late(scope) ==
    IF scope # NoScope
    THEN [scope EXCEPT !.deadline = scope.deadline + actual_timeout]
    ELSE scope

add_time_to_cancel_scope(scope) ==
    IF scope # NoScope
    THEN [scope EXCEPT !.deadline = now + actual_timeout]
    ELSE scope

\* How __on_lean_message(msg) ends: by the exception it raises, or "no".
\* Line 468 calls self.pending_requests.key(), which a dict does not have;
\* line 489 reads self.lean_file.last_line_of_inner_content; line 647 reads
\* self.proof_receive_done.
on_lean_message_raises(seq, kind) ==
    IF seq \notin DOMAIN pending_requests THEN "AttributeError"
    ELSE IF lean_file = "None" THEN "AttributeError"
    ELSE IF error_is_recorded(requests[request_for(seq)], kind)
         THEN "AttributeError"
    ELSE "no"

\* __on_lean_message(msg) with msg.seq_num = seq.
OnLeanMessage(seq, kind, n) ==
    /\ nb_msgs < MaxMsgs
    /\ nb_msgs' = nb_msgs + 1
    /\ last_call' = [op |-> "on_lean_message", arg |-> seq,
                     raised |-> on_lean_message_raises(seq, kind)]
    /\ IF seq \notin DOMAIN pending_requests \/ lean_file = "None"
       THEN UNCHANGED <<pending_requests, requests, error_chan>>
       ELSE IF error_is_recorded(requests[request_for(seq)], kind)
       THEN /\ error_chan' = Append(error_chan, seq)
            /\ UNCHANGED <<pending_requests, requests>>
       ELSE LET r == request_for(seq)
                R1 == [requests EXCEPT
                          ![r] = apply_message(requests[r], kind, n)]
                done == check_request_complete(pending_requests, R1, seq)
            IN  /\ pending_requests' = done.pending_requests
                /\ requests' = done.requests
                /\ UNCHANGED error_chan
    /\ cancel_scope' = add_time_to_cancel_scope(cancel_scope)
    /\ idle_since' = now
    /\ UNCHANGED <<request_seq_num, lean_file, call, sent, emitted, now,
                   args>>
    /\ UNCHANGED qvars
    /\ UNCHANGED tvars

\* __on_lean_state_change (lines 550-555); is_running is not part of the
\* state.
OnLeanStateChange ==
    /\ cancel_scope' = add_time_to_cancel_scope(cancel_scope)
    /\ idle_since' = now
    /\ last_call' = [op |-> "on_lean_state_change", arg |-> 0,
                     raised |-> "no"]
    /\ UNCHANGED <<emitted, now, args>>
    /\ UNCHANGED qvars
    /\ UNCHANGED svars
    /\ UNCHANGED tvars

\* ServerInterface.stop(): line 389 resets the queue's started flag (the Lean
\* server it stops is not part of the state).
Stop ==
    /\ started' = FALSE
    /\ UNCHANGED <<queue, is_busy, actual_timeout, queue_ended, tasks,
                   startOrder, emitted, last_call>>
    /\ UNCHANGED svars
    /\ UNCHANGED tvars
    /\ UNCHANGED cvars
    /\ UNCHANGED args

\* ============================================ MarkedTree: the structure

Min(S) == CHOOSE x \in S : \A y \in S : x <= y

\* MarkedMetavar.node (lines 1731-1738): the assigned object's node, if any.
node(T, n) ==
    IF T[n].mv /\ T[n].am # 0 THEN T[T[n].am].kind ELSE T[n].kind

\* MarkedMetavar.children (lines 1749-1756).
children(T, n) ==
    IF T[n].mv /\ T[n].am # 0 THEN T[T[n].am].ch ELSE T[n].ch

\* MarkedTree.is_assigned: bool(self.assigned_math_object); the class
\* attribute is None for a node that is not a metavariable.
is_assigned(T, n) == T[n].am # 0

is_metavar(T, n) == T[n].mv

\* The nodes displayed "child symbol child".
InfixNodes == {"SUM", "MULT", "PROP_EQUAL"}

\* ordered_children (lines 1033-1059) over the latex shape of the node, n
\* standing for a literal token of the shape: an infix operator is
\* (0, symbol, 1); the quantifier is the shape of the docstring,
\* (symbol, 1, symbol, (0, 0), symbol, 2); a type constructor is
\* (symbol, 0); parentheses are (symbol, 0, symbol); a NUMBER, a POINT and an
\* unassigned metavariable are one token.
shape_items(T, n, k, c) ==
    IF k \in InfixNodes THEN <<c[1], n, c[2]>>
    ELSE IF k = "GENERIC_PARENTHESES" THEN <<n, c[1], n>>
    ELSE IF k = "QUANT_FORALL"
         THEN <<n, c[2], n, children(T, c[1])[1], n, c[3]>>
    ELSE IF k = "SET" THEN <<n, c[1]>>
    ELSE <<n>>

ordered_children(T, n) == shape_items(T, n, node(T, n), children(T, n))

\* main_shape_symbol (lines 1025-1031): the index of the main symbol in the
\* latex shape.
main_shape_symbol(T, n) == IF node(T, n) \in InfixNodes THEN 1 ELSE 0

\* The function f of domain 1..n as the sequence of its values.
Tuple(f) == f \o <<>>

RECURSIVE FlattenTuple(_)
FlattenTuple(ss) ==
    IF ss = <<>> THEN <<>> ELSE Head(ss) \o FlattenTuple(Tail(ss))

Flatten(ss) == FlattenTuple(Tuple(ss))

\* total_and_cursor_list (lines 201-231), as the list of pairs
\* <<item, cursor number>>.
RECURSIVE total_and_cursor_list(_, _)
\* Mutant of lists_of_items: the cursor number counts the own items only.
lists_of_items_own(T, n, oc) ==
    [i \in 1..Len(oc) |->
        IF oc[i] = n
        THEN << <<n, Cardinality({j \in 1..(i - 1) : oc[j] = n})>> >>
        ELSE total_and_cursor_list(T, oc[i])]

lists_of_items(T, n, oc) ==
    [i \in 1..Len(oc) |-> IF oc[i] = n THEN << <<n, i - 1>> >>
                          ELSE total_and_cursor_list(T, oc[i])]

total_and_cursor_list(T, n) ==
    Flatten(lists_of_items(T, n, ordered_children(T, n)))

\* The first of the values found that is not None (0), if any.
FirstNotNone(found) ==
    IF \A i \in 1..Len(found) : found[i] = 0 THEN 0
    ELSE found[Min({i \in 1..Len(found) : found[i] # 0})]

FirstFound(found) == FirstNotNone(Tuple(found))

\* The items of total_list.
Firsts(l) == Tuple([i \in 1..Len(l) |-> l[i][1]])

total_list(T) == Firsts(total_and_cursor_list(T, Root))

\* marked_descendant (lines 156-168); 0 is None.
RECURSIVE marked_descendant(_, _)
marked_in_items(T, n, oc) ==
    [i \in 1..Len(oc) |-> IF oc[i] = n THEN 0
                          ELSE marked_descendant(T, oc[i])]

marked_descendant(T, n) ==
    IF T[n].cursor_pos # NoPos THEN n
    ELSE FirstFound(marked_in_items(T, n, ordered_children(T, n)))

\* parent_of (lines 426-440), over the children attribute; 0 is None.
RECURSIVE parent_of(_, _, _)
parent_among(T, n, descendant, c) ==
    IF \E i \in 1..Len(c) : c[i] = descendant THEN n
    ELSE FirstFound([i \in 1..Len(c) |-> parent_of(T, c[i], descendant)])

parent_of(T, n, descendant) ==
    IF n = descendant \/ descendant = 0 THEN 0
    ELSE parent_among(T, n, descendant, children(T, n))

\* The nodes of the tree: the root and, through children, its descendants.
RECURSIVE Descendants(_, _)
Descendants(T, n) ==
    {n} \cup UNION {Descendants(T, c) : c \in Range(children(T, n))}

\* ======================================== MarkedTree: moving in the tree

\* What a method leaves: the nodes, the cached index, the value returned
\* (a node, 1 for True, 0 for None or False) and the exception raised.
Returns(T, c, res) == [T |-> T, cache |-> c, res |-> res, raised |-> "no"]
Raises(T, c, e) == [T |-> T, cache |-> c, res |-> 0, raised |-> e]

\* unmark (lines 185-191), called on the marked node itself.
unmark(T, n) == [T EXCEPT ![n].cursor_pos = NoPos]

\* set_cursor_at_main_symbol (lines 1107-1109).
set_cursor_at_main_symbol(T, n) ==
    [T EXCEPT ![n].cursor_pos = main_shape_symbol(T, n)]

\* set_cursor_at (lines 284-289), when the tree has a marked descendant.
mark(T1, mvar, pos) ==
    IF pos = NoPos THEN set_cursor_at_main_symbol(T1, mvar)
    ELSE [T1 EXCEPT ![mvar].cursor_pos = pos]

set_cursor_at(T, mvar, pos) ==
    mark(unmark(T, marked_descendant(T, Root)), mvar, pos)

\* set_cursor_at and what it returns to its caller: line 285 calls unmark on
\* None when no node is marked.
move_cursor(T, c, mvar, pos, res) ==
    IF marked_descendant(T, Root) = 0 THEN Raises(T, c, "AttributeError")
    ELSE Returns(set_cursor_at(T, mvar, pos), c, res)

\* Lines 244-250: the index of (marked node, cursor_pos) in the list, or -1.
index_of(pair, l) ==
    IF \A i \in 1..Len(l) : l[i] # pair THEN -1
    ELSE Min({i \in 1..Len(l) : l[i] = pair}) - 1

marked_pair(T, md) == <<md, T[md].cursor_pos>>

computed_index(T) ==
    index_of(marked_pair(T, marked_descendant(T, Root)),
             total_and_cursor_list(T, Root))

\* Line 241: "if self._current_index_in_total_list" is false for None and 0.
is_cached(c) == c # NoIdx /\ c # 0

\* Mutant of current_index_in_total_list: the index is never taken from
\* the cache.
current_index_recomputed(T, c) == computed_index(T)

\* current_index_in_total_list (lines 233-253): its value, which is also the
\* cached index afterwards.
current_index_in_total_list(T, c) ==
    IF is_cached(c) THEN c ELSE computed_index(T)

\* Line 245 reads cursor_pos of None when no node is marked.
index_raises(T, c) == ~is_cached(c) /\ marked_descendant(T, Root) = 0

\* go_to_beginning (lines 291-294).
go_to_beginning(T, c) == move_cursor(T, c, Root, -1, 0)

\* go_to_end (lines 296-298), with last_pos (lines 270-274).
move_to_item(T, c, item) == move_cursor(T, c, item[1], item[2], 0)

go_to_end(T, c) == move_to_item(T, c, Last(total_and_cursor_list(T, Root)))

\* decrease_cursor_pos (lines 300-311); total_list[idx-1] is l[idx] here.
decrease_from(T, l, idx) ==
    IF idx > 0
    THEN IF idx > Len(l) THEN Raises(T, idx, "IndexError")
         ELSE move_to_item(T, idx - 1, l[idx])
    ELSE go_to_beginning(T, idx)

decrease_cursor_pos(T, c) ==
    IF index_raises(T, c) THEN Raises(T, c, "AttributeError")
    ELSE decrease_from(T, total_and_cursor_list(T, Root),
                       current_index_in_total_list(T, c))

\* increase_cursor_pos (lines 313-322); total_list[idx+1] is l[idx+2] here.
increase_from(T, l, idx) ==
    IF idx < Len(l) - 1 THEN move_to_item(T, idx + 1, l[idx + 2])
    ELSE Returns(T, idx, 0)

increase_cursor_pos(T, c) ==
    IF index_raises(T, c) THEN Raises(T, c, "AttributeError")
    ELSE increase_from(T, total_and_cursor_list(T, Root),
                       current_index_in_total_list(T, c))

\* next_after_marked (lines 324-333); 0 is None.
item_after(l, idx) == IF idx < Len(l) - 1 THEN l[idx + 2] ELSE 0

next_after_marked(T, idx) == item_after(total_list(T), idx)

\* move_up (lines 340-344), with parent_of_marked (lines 335-338).
move_to_node(T, c, mvar) ==
    IF mvar # 0 THEN move_cursor(T, c, mvar, NoPos, mvar)
    ELSE Returns(T, c, 0)

move_up(T, c) ==
    move_to_node(T, c, parent_of(T, Root, marked_descendant(T, Root)))

\* next_unassigned (lines 346-351): total_list[idx+1:]; 0 is None.
first_unassigned_in(T, l, from) ==
    IF \A i \in from..Len(l) : is_assigned(T, l[i]) THEN 0
    ELSE l[Min({i \in from..Len(l) : ~is_assigned(T, l[i])})]

next_unassigned(T, idx) == first_unassigned_in(T, total_list(T), idx + 2)

\* previous_unassigned (lines 353-358): total_list[:idx], which for idx = -1
\* is the list without its last item; 0 is None.
Max(S) == CHOOSE x \in S : \A y \in S : y <= x

\* The slice l[:idx] of Python.
Slice(l, idx) ==
    SubSeq(l, 1, IF idx < 0 THEN Len(l) + idx
                 ELSE IF idx > Len(l) THEN Len(l) ELSE idx)

last_unassigned_in(T, l) ==
    IF \A i \in 1..Len(l) : is_assigned(T, l[i]) THEN 0
    ELSE l[Max({i \in 1..Len(l) : ~is_assigned(T, l[i])})]

previous_unassigned(T, idx) ==
    last_unassigned_in(T, Slice(total_list(T), idx))

\* move_right_to_next_unassigned (lines 360-368).
move_right_to_next_unassigned(T, c) ==
    IF index_raises(T, c) THEN Raises(T, c, "AttributeError")
    ELSE move_to_node(T, current_index_in_total_list(T, c),
                      next_unassigned(T, current_index_in_total_list(T, c)))

\* move_left_to_previous_unassigned (lines 370-378).
move_left_to_previous_unassigned(T, c) ==
    IF index_raises(T, c) THEN Raises(T, c, "AttributeError")
    ELSE move_to_node(T, current_index_in_total_list(T, c),
                      previous_unassigned(T,
                                          current_index_in_total_list(T, c)))

\* The first unassigned metavariable of ordered_children(n); 0: none.
first_free(T, oc) ==
    IF \A i \in 1..Len(oc) : ~is_metavar(T, oc[i]) \/ is_assigned(T, oc[i])
    THEN 0
    ELSE oc[Min({i \in 1..Len(oc) :
                    is_metavar(T, oc[i]) /\ ~is_assigned(T, oc[i])})]

first_unassigned_mvar(T, n) ==
    IF n = 0 THEN 0 ELSE first_free(T, ordered_children(T, n))

\* Mutant of after_insert_target: the unassigned sisters come first.
first_of(own, sister, assigned_mvar) ==
    IF own # 0 THEN own ELSE IF sister # 0 THEN sister ELSE assigned_mvar

after_insert_target_sisters_first(T, assigned_mvar) ==
    first_of(first_unassigned_mvar(T, parent_of(T, Root, assigned_mvar)),
             first_unassigned_mvar(T, assigned_mvar), assigned_mvar)

\* move_after_insert (lines 388-406): the node that gets the cursor.
after_insert_target(T, assigned_mvar) ==
    first_of(first_unassigned_mvar(T, assigned_mvar),
             first_unassigned_mvar(T, parent_of(T, Root, assigned_mvar)),
             assigned_mvar)

\* move_after_insert (lines 380-406).
move_to_target(T, c, target, assigned_mvar) ==
    move_cursor(T, c, target, IF target = assigned_mvar THEN NoPos ELSE 0,
                target)

move_after_insert(T, c, assigned_mvar) ==
    move_to_target(T, c, after_insert_target(T, assigned_mvar),
                   assigned_mvar)

\* MarkedMetavar.delete (lines 1765-1773).
delete(T, n) == [T EXCEPT ![n].am = 0]

\* clear_marked_mvar (lines 1691-1701); delete is a method of MarkedMetavar
\* only.
Done(moved) == [moved EXCEPT !.res = IF moved.raised = "no" THEN 1 ELSE 0]

clear_mvar(T, c, mvar) ==
    IF mvar = 0 THEN Returns(T, c, 0)
    ELSE IF ~is_metavar(T, mvar) THEN Raises(T, c, "AttributeError")
    ELSE IF ~is_assigned(T, mvar) THEN Returns(T, c, 0)
    ELSE Done(decrease_cursor_pos(set_cursor_at(delete(T, mvar), mvar, 0),
                                  c))

clear_marked_mvar(T, c) == clear_mvar(T, c, marked_descendant(T, Root))

\* ================================ MarkedPatternMathObject: insertion

\* The values of the NUMBER patterns.
Digits == {"2", "3"}

\* The patterns the calculator inserts, deep-copied (line 1468) into the
\* nodes base+1.., the copy's root being base+1: "SUM(?0, ?1)" and the like,
\* "SUM(?1, NUMBER/value=1)" (line 1804), a NUMBER, a POINT and a quantifier
\* on the subsets of a set.
deep_copy(frag, base) ==
    CASE frag \in InfixNodes ->
             <<PMO(frag, <<base + 2, base + 3>>, <<>>),
               MarkedMetavar, MarkedMetavar>>
      [] frag = "SUM1" ->
             <<PMO("SUM", <<base + 2, base + 3>>, <<>>),
               MarkedMetavar, PMO("NUMBER", <<>>, <<"1">>)>>
      [] frag = "QUANT_FORALL" ->
             <<PMO("QUANT_FORALL", <<base + 2, base + 4, base + 5>>, <<>>),
               PMO("SET", <<base + 3>>, <<>>),
               MarkedMetavar, MarkedMetavar, MarkedMetavar>>
      [] frag = "POINT" -> <<PMO("POINT", <<>>, <<>>)>>
      [] OTHER -> <<PMO("NUMBER", <<>>, <<frag>>)>>

\* Lines 818-824, decreasing precedence; "PROP_<=" and "PROP_>=" are the
\* nodes of the large inequalities.
priorities == <<{"COMPOSITE_NUMBER"}, {"POINT"}, {"MULT", "DIV"},
                {"SUM", "DIFFERENCE"},
                {"PROP_EQUAL", "PROP_<", "PROP_>", "PROP_<=", "PROP_>="}>>

\* The rank of the class of a node in priorities, 0 when it is in none.
level(x) ==
    IF \E i \in 1..Len(priorities) : x \in priorities[i]
    THEN CHOOSE i \in 1..Len(priorities) : x \in priorities[i]
    ELSE 0

RECURSIVE priority_loop_forgetful(_, _, _, _, _)
\* The loop that forgets that it has met other.
priority_loop_forgetful(self, other, i, self_found, other_found) ==
    IF i > Len(priorities) THEN "None"
    ELSE IF self \in priorities[i]
    THEN IF other \in priorities[i] THEN "="
         ELSE priority_loop_forgetful(self, other, i + 1, TRUE, other_found)
    ELSE IF other \in priorities[i]
    THEN IF self_found THEN ">"
         ELSE priority_loop_forgetful(self, other, i + 1, self_found, TRUE)
    ELSE priority_loop_forgetful(self, other, i + 1, self_found, other_found)

RECURSIVE priority_loop(_, _, _, _, _)
\* The loop of priority (lines 837-850) from the i-th set of priorities on;
\* "None" when the loop ends without a return.
priority_loop(self, other, i, self_found, other_found) ==
    IF i > Len(priorities) THEN "None"
    ELSE IF self \in priorities[i]
    THEN IF other_found THEN "<"
         ELSE IF other \in priorities[i] THEN "="
         ELSE priority_loop(self, other, i + 1, TRUE, other_found)
    ELSE IF other \in priorities[i]
    THEN IF self_found THEN ">"
         ELSE priority_loop(self, other, i + 1, self_found, TRUE)
    ELSE priority_loop(self, other, i + 1, self_found, other_found)

\* priority (lines 827-850): "=", ">" (self comes first in the list), "<",
\* or "None".
priority(self, other) ==
    IF self = "" \/ other = "" THEN "None"
    ELSE priority_loop(self, other, 1, FALSE, FALSE)

\* The items of oc[lo..hi] that are not n itself.
Others(oc, n, lo, hi) ==
    Flatten([i \in 1..Len(oc) |->
                IF lo <= i /\ i <= hi /\ oc[i] # n THEN <<oc[i]>> ELSE <<>>])

\* Lines 1070-1096: the children before the first token of the shape, between
\* the first and the last, and after the last.
partition(oc, n) ==
    IF \A i \in 1..Len(oc) : oc[i] # n
    THEN <<<<>>, Others(oc, n, 1, Len(oc)), <<>>>>
    ELSE <<Others(oc, n, 1, Min({i \in 1..Len(oc) : oc[i] = n})),
           Others(oc, n, Min({i \in 1..Len(oc) : oc[i] = n}),
                  Max({i \in 1..Len(oc) : oc[i] = n})),
           Others(oc, n, Max({i \in 1..Len(oc) : oc[i] = n}), Len(oc))>>

\* partionned_children (lines 1061-1096): <<left, central, right>>.
partionned_children(T, n) == partition(ordered_children(T, n), n)

\* all_mvars(unassigned=True): the unassigned metavariables of a subtree.
RECURSIVE all_mvars(_, _)
all_mvars(T, n) ==
    IF is_metavar(T, n) /\ ~is_assigned(T, n) THEN <<n>>
    ELSE Flatten([i \in 1..Len(children(T, n)) |->
                     all_mvars(T, children(T, n)[i])])

mvars_of_lists(T, lists) ==
    Tuple([k \in 1..3 |->
              Flatten([i \in 1..Len(lists[k]) |->
                          all_mvars(T, lists[k][i])])])

\* partionned_mvars(unassigned=True) (lines 1098-1105).
partionned_mvars(T, n) == mvars_of_lists(T, partionned_children(T, n))

InSeq(x, seq) == \E i \in 1..Len(seq) : seq[i] = x

\* other in l[:idx+1]; for idx = -1 the slice l[:0] is empty.
in_left(l, idx, other) == \E i \in 1..Len(l) : i <= idx + 1 /\ l[i] = other

\* other in l[idx+1:]; for idx = -1 the slice l[0:] is the whole list.
in_right(l, idx, other) == \E i \in 1..Len(l) : i >= idx + 2 /\ l[i] = other

\* appears_left_of_cursor (lines 418-424).
appears_left_of_cursor(T, idx, other) == in_left(total_list(T), idx, other)

\* appears_right_of_cursor (lines 408-416).
appears_right_of_cursor(T, idx, other) == in_right(total_list(T), idx, other)

\* Lines 1140 and 1191, 1207: the test of a left child.
left_child_test(p) == p # ">"

\* Mutant of right_child_test: equal priorities are accepted.
right_child_test_lax(p) == p # ">"

\* Lines 1143 and 1194, 1209: the test of a right child.
right_child_test(p) == p \notin {"=", ">"}

\* Priority test I (lines 1186-1202): can new_pmo be a child of parent_mvar,
\* p being priority(parent_mvar.node, new_pmo.node)?
priority_test_I(parts, mvar, p) ==
    IF InSeq(mvar, parts[1]) THEN left_child_test(p)
    ELSE IF InSeq(mvar, parts[3]) THEN right_child_test(p)
    ELSE TRUE

\* Priority test II (lines 1204-1216): can mvar be a child of new_pmo, p
\* being priority(new_pmo.node, mvar.node)?
priority_test_II(left, p) ==
    IF left THEN left_child_test(p) ELSE right_child_test(p)

\* priority_tests (lines 1175-1216), l being the total list of the tree;
\* test I is for an anchor that has a parent (line 1186).
child_of_parent_test(T, new_pmo, mvar, parent_mvar) ==
    IF parent_mvar = 0 THEN TRUE
    ELSE priority_test_I(partionned_children(T, parent_mvar), mvar,
                         priority(node(T, parent_mvar), node(T, new_pmo)))

priority_tests(T, l, idx, new_pmo, mvar, parent_mvar) ==
    /\ child_of_parent_test(T, new_pmo, mvar, parent_mvar)
    /\ priority_test_II(in_left(l, idx, mvar),
                        priority(node(T, new_pmo), node(T, mvar)))

\* Lines 1238-1239: the children that do not appear right of the cursor.
left_children_of(l, idx, c) ==
    Flatten([i \in 1..Len(c) |->
                IF in_right(l, idx, c[i]) THEN <<>> ELSE <<c[i]>>])

\* Lines 1241-1242: the children that do not appear left of the cursor.
right_children_of(l, idx, c) ==
    Flatten([i \in 1..Len(c) |->
                IF in_left(l, idx, c[i]) THEN <<>> ELSE <<c[i]>>])

\* first_right_descendants (lines 1223-1250), l being the total list.
RECURSIVE first_right_descendants(_, _, _, _)
right_descendants_from(T, l, idx, left_children, right_children) ==
    (IF left_children # <<>>
     THEN first_right_descendants(T, l, idx, Last(left_children))
     ELSE <<>>) \o right_children

first_right_descendants(T, l, idx, mvar) ==
    IF T[mvar].am = 0 THEN <<>>
    ELSE right_descendants_from(T, l, idx,
             left_children_of(l, idx, T[T[mvar].am].ch),
             right_children_of(l, idx, T[T[mvar].am].ch))

\* first_left_descendants (lines 1252-1279), l being the total list.
RECURSIVE first_left_descendants(_, _, _, _)
left_descendants_from(T, l, idx, left_children, right_children) ==
    left_children \o
    (IF right_children # <<>>
     THEN first_left_descendants(T, l, idx, Head(right_children))
     ELSE <<>>)

first_left_descendants(T, l, idx, mvar) ==
    IF T[mvar].am = 0 THEN <<>>
    ELSE left_descendants_from(T, l, idx,
             left_children_of(l, idx, T[T[mvar].am].ch),
             right_children_of(l, idx, T[T[mvar].am].ch))

\* clear_assignment of each metavariable of the list.
RECURSIVE clear_assignments(_, _)
clear_assignments(T, mvars) ==
    IF mvars = <<>> THEN T
    ELSE clear_assignments([T EXCEPT ![Head(mvars)].am = 0], Tail(mvars))

\* do_assign (lines 1218-1221): assignments is a list of <<metavar, object>>.
RECURSIVE do_assign(_, _)
do_assign(T, assignments) ==
    IF assignments = <<>> THEN T
    ELSE do_assign([T EXCEPT ![Head(assignments)[1]].am = Head(assignments)[2]],
                   Tail(assignments))

\* Mutant of clear_now: the children moved are cleared when the whole
\* re-assignment has succeeded only.
clear_now_deferred(T, to_be_cleared) == T

\* Line 1383: the children moved so far are cleared as soon as one is placed.
clear_now(T, to_be_cleared) == clear_assignments(T, to_be_cleared)

\* re_assign, (C-2) move bad children (lines 1351-1386). With check_types
\* False each bad child takes the next metavariable of mvars, matching or not.
RECURSIVE move_bad_children(_, _, _, _, _)
move_bad_children(T, bad_children, mvars, to_be_cleared, assignments) ==
    IF bad_children = <<>>
    THEN [T |-> clear_assignments(T, to_be_cleared), ok |-> TRUE,
          assignments |-> assignments]
    ELSE IF T[Head(bad_children)].am = 0
    THEN move_bad_children(T, Tail(bad_children), mvars, to_be_cleared,
                           assignments)
    ELSE IF mvars = <<>>
    THEN [T |-> T, ok |-> FALSE, assignments |-> assignments]
    ELSE move_bad_children(
             clear_now(T, Append(to_be_cleared, Head(bad_children))),
             Tail(bad_children), Tail(mvars),
             Append(to_be_cleared, Head(bad_children)),
             Append(assignments,
                    <<Head(mvars), T[Head(bad_children)].am>>))

\* Lines 1306-1332: the first metavariable of new_pmo that takes the object
\* of mvar, on the left, else on the right, else in the centre; then
\* lines 1334-1386.
re_assign_to(T, l, idx, mvar, left, right, mv3) ==
    IF left /\ mv3[1] # <<>>
    THEN move_bad_children(T, first_right_descendants(T, l, idx, mvar),
                           mv3[3], <<>>, << <<mv3[1][1], T[mvar].am>> >>)
    ELSE IF right /\ mv3[3] # <<>>
    THEN move_bad_children(T, first_left_descendants(T, l, idx, mvar),
                           mv3[1], <<>>, << <<mv3[3][1], T[mvar].am>> >>)
    ELSE IF mv3[2] # <<>>
    THEN [T |-> T, ok |-> TRUE,
          assignments |-> << <<mv3[2][1], T[mvar].am>> >>]
    ELSE [T |-> T, ok |-> FALSE, assignments |-> <<>>]

\* re_assign (lines 1281-1386), check_types being False, l being the total
\* list of the tree.
re_assign(T, l, idx, mvar, new_pmo) ==
    re_assign_to(T, l, idx, mvar, in_left(l, idx, mvar),
                 in_right(l, idx, mvar), partionned_mvars(T, new_pmo))

\* Mutant of assign_new: the assignments found are made even when the
\* re-assignment fails.
assign_new_eager(moved, mvar, new_pmo) ==
    IF ~moved.ok
    THEN [T |-> do_assign(moved.T, moved.assignments), ok |-> FALSE,
          raised |-> "no"]
    ELSE [T |-> do_assign([moved.T EXCEPT ![mvar].am = 0],
                          Append(moved.assignments, <<mvar, new_pmo>>)),
          ok |-> TRUE, raised |-> "no"]

\* Lines 1430-1449: the object of mvar is new_pmo once its former object and
\* the bad children have their new places.
assign_new(moved, mvar, new_pmo) ==
    IF ~moved.ok THEN [T |-> moved.T, ok |-> FALSE, raised |-> "no"]
    ELSE [T |-> do_assign([moved.T EXCEPT ![mvar].am = 0],
                          Append(moved.assignments, <<mvar, new_pmo>>)),
          ok |-> TRUE, raised |-> "no"]

\* Lines 1401-1449, idx being the index of the cursor and l the total list.
insert_at(T, l, idx, new_pmo, mvar, parent_mvar) ==
    IF ~priority_tests(T, l, idx, new_pmo, mvar, parent_mvar)
    THEN [T |-> T, ok |-> FALSE, raised |-> "no"]
    ELSE assign_new(IF is_assigned(T, mvar)
                    THEN re_assign(T, l, idx, mvar, new_pmo)
                    ELSE [T |-> T, ok |-> TRUE, assignments |-> <<>>],
                    mvar, new_pmo)

\* insert_if_you_can (lines 1388-1449), check_types being False: ok tells
\* success; the assert of line 1399 fails on a node that is not a
\* MarkedMetavar, and appears_left_of_cursor (line 1403) needs the index.
insert_if_you_can(T, c, new_pmo, mvar, parent_mvar) ==
    IF ~is_metavar(T, mvar)
    THEN [T |-> T, ok |-> FALSE, raised |-> "AssertionError"]
    ELSE IF index_raises(T, c)
    THEN [T |-> T, ok |-> FALSE, raised |-> "AttributeError"]
    ELSE insert_at(T, total_list(T), current_index_in_total_list(T, c),
                   new_pmo, mvar, parent_mvar)

\* Mutant of last_match: a match that fails makes the insertion fail whatever
\* check_types.
last_match_strict(moved, mvar, new_pmo, check_types, matches) ==
    IF ~moved.ok \/ ~matches
    THEN [T |-> moved.T, ok |-> FALSE, raised |-> "no"]
    ELSE [T |-> do_assign([moved.T EXCEPT ![mvar].am = new_pmo],
                          moved.assignments),
          ok |-> TRUE, raised |-> "no"]

\* (D) Last match (lines 1425-1449), matches being the answer of
\* mvar.match(new_pmo): the assignment of mvar is cleared; a match makes
\* new_pmo the object of mvar (assign_matched_metavars), and without a match
\* the assignment is recorded unless check_types.
last_match(moved, mvar, new_pmo, check_types, matches) ==
    IF ~moved.ok THEN [T |-> moved.T, ok |-> FALSE, raised |-> "no"]
    ELSE IF matches
    THEN [T |-> do_assign([moved.T EXCEPT ![mvar].am = new_pmo],
                          moved.assignments),
          ok |-> TRUE, raised |-> "no"]
    ELSE IF ~check_types
    THEN [T |-> do_assign([moved.T EXCEPT ![mvar].am = 0],
                          Append(moved.assignments, <<mvar, new_pmo>>)),
          ok |-> TRUE, raised |-> "no"]
    ELSE [T |-> [moved.T EXCEPT ![mvar].am = 0], ok |-> FALSE,
          raised |-> "no"]

\* (B) First match (lines 1422-1424), rematches being the answer of the
\* matches of assign (lines 1164-1173): with check_types no child of new_pmo
\* takes an object it does not match.
first_match(T, l, idx, mvar, new_pmo, check_types, rematches) ==
    IF ~is_assigned(T, mvar) THEN [T |-> T, ok |-> TRUE, assignments |-> <<>>]
    ELSE IF check_types /\ ~rematches
    THEN [T |-> T, ok |-> FALSE, assignments |-> <<>>]
    ELSE re_assign(T, l, idx, mvar, new_pmo)

\* insert_if_you_can (lines 1388-1449) with its parameter check_types and the
\* answers of match.
insert_if_you_can_types(T, c, new_pmo, mvar, parent_mvar, check_types, rematches, matches) ==
    IF ~is_metavar(T, mvar)
    THEN [T |-> T, ok |-> FALSE, raised |-> "AssertionError"]
    ELSE IF index_raises(T, c)
    THEN [T |-> T, ok |-> FALSE, raised |-> "AttributeError"]
    ELSE IF ~priority_tests(T, total_list(T), current_index_in_total_list(T, c),
                            new_pmo, mvar, parent_mvar)
    THEN [T |-> T, ok |-> FALSE, raised |-> "no"]
    ELSE last_match(first_match(T, total_list(T),
                                current_index_in_total_list(T, c), mvar,
                                new_pmo, check_types, rematches),
                    mvar, new_pmo, check_types, matches)

\* The loops of insert (lines 1470-1487): mvar is tried, then its parent and
\* so on upwards; then the next anchor of the list. size is the number of
\* nodes before the pattern was copied: the copy is dropped unless inserted.
RECURSIVE try_anchors(_, _, _, _, _, _, _)
after_try(try, c, size, new_pmo, mvar, parent_mvar, anchors) ==
    IF try.raised # "no" THEN Raises(SubSeq(try.T, 1, size), c, try.raised)
    ELSE IF try.ok THEN Returns(try.T, c, mvar)
    ELSE try_anchors(try.T, c, size, new_pmo, parent_mvar,
                     parent_of(try.T, Root, parent_mvar), anchors)

try_anchors(T, c, size, new_pmo, mvar, parent_mvar, anchors) ==
    IF mvar = 0
    THEN IF anchors = <<>> THEN Returns(SubSeq(T, 1, size), c, 0)
         ELSE try_anchors(T, c, size, new_pmo, Head(anchors),
                          parent_of(T, Root, Head(anchors)), Tail(anchors))
    ELSE after_try(insert_if_you_can(T, c, new_pmo, mvar, parent_mvar),
                   c, size, new_pmo, mvar, parent_mvar, anchors)

\* Lines 1468-1487, idx being the index of the cursor: the anchors are the
\* marked descendant and the node after it.
insert_from(T, idx, frag) ==
    try_anchors(T \o deep_copy(frag, Len(T)), idx, Len(T), Len(T) + 1, 0, 0,
                <<marked_descendant(T, Root), next_after_marked(T, idx)>>)

\* insert (lines 1454-1487); next_after_marked needs the index.
insert(T, c, frag) ==
    IF index_raises(T, c) THEN Raises(T, c, "AttributeError")
    ELSE insert_from(T, current_index_in_total_list(T, c), frag)

Count(ch, seq) == Cardinality({i \in 1..Len(seq) : seq[i] = ch})

\* Mutant of merge_nbs: any number of points is accepted.
merge_nbs_any(nb1, nb2) == nb1 \o nb2

\* merge_nbs (lines 89-92); <<>> is None (no value is the empty string).
merge_nbs(nb1, nb2) ==
    IF Count(".", nb1 \o nb2) < 2 THEN nb1 \o nb2 ELSE <<>>

\* Mutant of merged_left: the new value comes first.
merged_left_swapped(left, new_pmo_value) == merge_nbs(new_pmo_value, left)

\* Line 1571: the value of the number left of the cursor, then the new one.
merged_left(left, new_pmo_value) == merge_nbs(left, new_pmo_value)

\* Lines 1572-1574 and 1581-1583: the number gets the merged value, if any.
set_value(T, c, mvar, number, new_value) ==
    IF new_value # <<>>
    THEN Returns([T EXCEPT ![number].value = new_value], c, mvar)
    ELSE Returns(T, c, 0)

\* Lines 1576-1583: the number right of the cursor; line 1577 reads
\* assigned_math_object of None when no node follows the cursor.
merge_right(T, idx, new_pmo_value, mvar) ==
    IF mvar = 0 THEN Raises(T, idx, "AttributeError")
    ELSE IF T[mvar].am # 0 /\ T[T[mvar].am].kind = "NUMBER"
    THEN set_value(T, idx, mvar, T[mvar].am,
                   merge_nbs(new_pmo_value, T[T[mvar].am].value))
    ELSE Returns(T, idx, 0)

\* Lines 1567-1583, mvar being the marked descendant.
merge_at(T, c, new_pmo_value, mvar) ==
    IF mvar = 0 THEN Raises(T, c, "AttributeError")
    ELSE IF T[mvar].am # 0 /\ T[T[mvar].am].kind = "NUMBER"
    THEN set_value(T, c, mvar, T[mvar].am,
                   merged_left(T[T[mvar].am].value, new_pmo_value))
    ELSE IF index_raises(T, c) THEN Raises(T, c, "AttributeError")
    ELSE merge_right(T, current_index_in_total_list(T, c), new_pmo_value,
             next_after_marked(T, current_index_in_total_list(T, c)))

\* insert_number (lines 1558-1583): new_pmo is a NUMBER of value frag or a
\* POINT.
insert_number(T, c, frag) ==
    IF frag \notin Digits \cup {"POINT"} THEN Returns(T, c, 0)
    ELSE merge_at(T, c, IF frag = "POINT" THEN <<".">> ELSE <<frag>>,
                  marked_descendant(T, Root))

\* Lines 1594-1596: the cursor goes to the number and the marked descendant
\* is returned.
cursor_at_number(new_nb) ==
    IF new_nb.raised # "no" \/ new_nb.res = 0 THEN new_nb
    ELSE Returns(set_cursor_at(new_nb.T, new_nb.res, NoPos), new_nb.cache,
                 marked_descendant(set_cursor_at(new_nb.T, new_nb.res, NoPos),
                                   Root))

\* generic_insert (lines 1585-1600): the insertion of a generic node is
\* deactivated, what is left is insert_number.
generic_insert(T, c, frag) == cursor_at_number(insert_number(T, c, frag))

\* ============================================= operations on the tree

Op(op) == [op |-> op, frag |-> "none"]
Ins(frag) == <<[op |-> "insert", frag |-> frag], Op("move_after_insert")>>

\* What the user does before the operations that are explored: nothing;
\* "2+3"; "2*3+2"; a quantifier, "2+3" as its first operand, 3 as its last
\* one, and the cursor brought back to its first symbol; the same and one
\* more digit.
Quantified ==
    Ins("QUANT_FORALL") \o Ins("SUM") \o Ins("2") \o Ins("3")
        \o <<Op("go_to_end")>> \o Ins("3") \o <<Op("decrease_cursor_pos")>>

Typed ==
    {<<>>,
     Ins("2") \o Ins("SUM") \o Ins("3"),
     Ins("2") \o Ins("MULT") \o Ins("3") \o Ins("SUM") \o Ins("2"),
     Quantified,
     Quantified \o <<[op |-> "generic_insert", frag |-> "3"]>>}

\* The operation leaves r: the nodes, the cache and the history.
Leaves(r, op, frag) ==
    /\ tree' = r.T
    /\ cache' = r.cache
    /\ tcall' = [op |-> op, frag |-> frag, res |-> r.res, raised |-> r.raised]
    /\ IF typed = <<>> THEN steps < MaxSteps
       ELSE Head(typed) = [op |-> op, frag |-> frag]
    /\ typed' = IF typed = <<>> THEN typed ELSE Tail(typed)
    /\ steps' = IF typed = <<>> THEN steps + 1 ELSE steps
    /\ UNCHANGED qvars
    /\ UNCHANGED svars
    /\ UNCHANGED <<emitted, last_call>>
    /\ UNCHANGED cvars
    /\ UNCHANGED args

Patterns == InfixNodes \cup {"SUM1", "QUANT_FORALL"} \cup Digits

\* The patterns that are inserted by force: the numbers, the point and one
\* pattern that is not a number.
Forced == Digits \cup {"POINT", "SUM"}

Insert(frag) ==
    /\ Leaves(insert(tree, cache, frag), "insert", frag)

\* The calculator moves the cursor after an insertion that succeeded.
MoveAfterInsert ==
    /\ tcall.op = "insert" /\ tcall.res # 0
    /\ Leaves(move_after_insert(tree, cache, tcall.res), "move_after_insert",
              "none")

GenericInsert(frag) ==
    /\ Leaves(generic_insert(tree, cache, frag), "generic_insert", frag)

ClearMarkedMvar ==
    /\ Leaves(clear_marked_mvar(tree, cache), "clear_marked_mvar", "none")

GoToBeginning ==
    /\ Leaves(go_to_beginning(tree, cache), "go_to_beginning", "none")

GoToEnd ==
    /\ Leaves(go_to_end(tree, cache), "go_to_end", "none")

IncreaseCursorPos ==
    /\ Leaves(increase_cursor_pos(tree, cache), "increase_cursor_pos", "none")

DecreaseCursorPos ==
    /\ Leaves(decrease_cursor_pos(tree, cache), "decrease_cursor_pos", "none")

MoveUp ==
    /\ Leaves(move_up(tree, cache), "move_up", "none")

MoveRightToNextUnassigned ==
    /\ Leaves(move_right_to_next_unassigned(tree, cache),
              "move_right_to_next_unassigned", "none")

MoveLeftToPreviousUnassigned ==
    /\ Leaves(move_left_to_previous_unassigned(tree, cache),
              "move_left_to_previous_unassigned", "none")

\* ====================================================== specifications

AddTask ==
    /\ Len(tasks) < MaxTasks
    /\ \E cancel_fct \in BOOLEAN, on_top \in BOOLEAN :
           add_task(cancel_fct, on_top)

Next ==
    \/ AddTask
    \/ \E t \in TaskIds : TaskBegins(t)
    \/ \E t \in TaskIds : AttemptCompletes(t)
    \/ \E t \in TaskIds : AttemptTimesOut(t)
    \/ \E t \in TaskIds : AttemptTypeError(t)
    \/ \E t \in TaskIds : AttemptRaises(t)

Spec == Init /\ [][Next]_vars

\* The ServerQueue of a ServerInterface that may be stopped at any time.
StopNext ==
    \/ Next
    \/ Stop

StopSpec == Init /\ [][StopNext]_vars

\* The calculator: insertions, deletions and moves of the cursor.
TreeNext ==
    \/ \E frag \in Patterns : Insert(frag)
    \/ MoveAfterInsert
    \/ \E frag \in Forced : GenericInsert(frag)
    \/ ClearMarkedMvar
    \/ GoToBeginning
    \/ GoToEnd
    \/ IncreaseCursorPos
    \/ DecreaseCursorPos
    \/ MoveUp
    \/ MoveRightToNextUnassigned
    \/ MoveLeftToPreviousUnassigned

\* The calculator when the user starts typing one of the expressions of
\* Typed; MaxSteps more operations follow.
TreeInit ==
    /\ tree = <<[MarkedMetavar EXCEPT !.cursor_pos = 0]>>
    /\ cache = NoIdx
    /\ tcall = NoTreeCall
    /\ typed \in Typed
    /\ steps = 0
    /\ ServerInit

TreeSpec == TreeInit /\ [][TreeNext]_vars

\* The nodes priority is asked about: those of the table, the empty node and
\* nodes that are in no class.
Nodes ==
    UNION {priorities[i] : i \in 1..Len(priorities)}
        \cup {"", "NUMBER", "QUANT_FORALL", "GENERIC_NODE"}

\* priority(self, other) is called.
Priority(self, other) ==
    /\ tcall' = [op |-> "priority", frag |-> <<self, other>>,
                 res |-> priority(self, other), raised |-> "no"]
    /\ UNCHANGED <<tree, cache, typed, steps>>
    /\ UNCHANGED qvars
    /\ UNCHANGED svars
    /\ UNCHANGED <<emitted, last_call>>
    /\ UNCHANGED cvars
    /\ UNCHANGED args

PriorityNext == \E self \in Nodes, other \in Nodes : Priority(self, other)

PriorityInit ==
    /\ tree = <<[MarkedMetavar EXCEPT !.cursor_pos = 0]>>
    /\ cache = NoIdx
    /\ tcall = NoTreeCall
    /\ typed = <<>>
    /\ steps = 0
    /\ ServerInit

PrioritySpec == PriorityInit /\ [][PriorityNext]_vars

\* insert_if_you_can is called with a copy of the pattern on a node of the
\* tree and its parent: the copy is dropped when the insertion fails.
Kept(r, size) == IF r.ok THEN r.T ELSE SubSeq(r.T, 1, size)

\* The call leaves r; no other operation is explored after it.
LeavesAnchor(r, size, frag, mvar, check_types, matches) ==
    /\ tree' = Kept(r, size)
    /\ tcall' = [op |-> "insert_if_you_can", frag |-> frag, res |-> r.ok,
                 raised |-> r.raised, mvar |-> mvar,
                 check_types |-> check_types, matches |-> matches]
    /\ steps' = MaxSteps
    /\ UNCHANGED <<cache, typed>>
    /\ UNCHANGED qvars
    /\ UNCHANGED svars
    /\ UNCHANGED <<emitted, last_call>>
    /\ UNCHANGED cvars
    /\ UNCHANGED args

InsertIfYouCan(frag, mvar, check_types, rematches, matches) ==
    /\ typed = <<>>
    /\ steps < MaxDirect
    /\ mvar \in Descendants(tree, Root)
    /\ LeavesAnchor(insert_if_you_can_types(
                        tree \o deep_copy(frag, Len(tree)), cache,
                        Len(tree) + 1, mvar, parent_of(tree, Root, mvar),
                        check_types, rematches, matches),
                    Len(tree), frag, mvar, check_types, matches)

AnchorNext ==
    \/ TreeNext
    \/ \E frag \in Patterns, mvar \in 1..Len(tree), check_types \in BOOLEAN,
          rematches \in BOOLEAN, matches \in BOOLEAN :
          InsertIfYouCan(frag, mvar, check_types, rematches, matches)

AnchorSpec == TreeInit /\ [][AnchorNext]_vars

\* The sequence numbers a message of Lean may carry: those of the requests
\* sent to it (the file sent holds the request's seq_num).
MsgSeqs == sent

ServerNext ==
    \/ \E kind \in Methods : CallBegins(kind)
    \/ \E resp_ok \in BOOLEAN : CallReturns(resp_ok)
    \/ CallCancelled
    \/ \E seq \in MsgSeqs, kind \in MsgKinds \ {"targets"} :
           OnLeanMessage(seq, kind, 0)
    \/ \E seq \in MsgSeqs, n \in 0..MaxGoals : OnLeanMessage(seq, "targets", n)

ServerSpec == Init /\ [][ServerNext]_vars

\* The ServerQueue and the ServerInterface under trio's clock: time passes,
\* and an attempt's cancel scope expires when its deadline is reached.
Tick ==
    /\ now + TickLen <= MaxTime
    /\ cancel_scope.task \in Executing => now < cancel_scope.deadline
    /\ now' = now + TickLen
    /\ UNCHANGED <<cancel_scope, idle_since, emitted, last_call, args>>
    /\ UNCHANGED qvars
    /\ UNCHANGED svars
    /\ UNCHANGED tvars

\* The deadline of the scope of task t's attempt is reached (line 182).
AttemptExpires(t) ==
    /\ cancel_scope.task = t
    /\ now >= cancel_scope.deadline
    /\ no_answer(t)

ClockAddTask ==
    /\ Len(tasks) < MaxClockTasks
    /\ AddTask

\* fct is a method of the ServerInterface.
ClockCallBegins ==
    /\ Len(requests) < MaxClockCalls
    /\ \E kind \in Methods : CallBegins(kind)

ClockNext ==
    \/ ClockAddTask
    \/ \E t \in TaskIds : TaskBegins(t)
    \/ \E t \in TaskIds : AttemptCompletes(t)
    \/ \E t \in TaskIds : AttemptExpires(t)
    \/ Tick
    \/ OnLeanStateChange
    \/ ClockCallBegins
    \/ \E resp_ok \in BOOLEAN : CallReturns(resp_ok)
    \/ \E seq \in MsgSeqs, kind \in MsgKinds : OnLeanMessage(seq, kind, 0)

ClockSpec == Init /\ [][ClockNext]_vars

\* Mutant of cancel_current_task: the test of line 212 is left out.
cancel_current_task_untested(scope) == [scope EXCEPT !.cancel_called = TRUE]

\* cancel_current_task (lines 211-213): CancelScope.cancel() marks the scope
\* and returns.
cancel_current_task(scope) ==
    IF scope # NoScope
    THEN [scope EXCEPT !.cancel_called = TRUE]
    ELSE scope

CancelCurrentTask ==
    /\ cancel_scope' = cancel_current_task(cancel_scope)
    /\ last_call' = [op |-> "cancel_current_task", arg |-> 0, raised |-> "no"]
    /\ UNCHANGED <<emitted, now, idle_since, args>>
    /\ UNCHANGED qvars
    /\ UNCHANGED svars
    /\ UNCHANGED tvars

\* The attempt of task t is resumed in a scope that was cancelled: Cancelled
\* is raised at "await fct(*args)" and caught by the scope (line 182).
AttemptCancelled(t) ==
    /\ cancel_scope.task = t
    /\ cancel_scope.cancel_called
    /\ no_answer(t)

\* fct may return only where no cancellation is waiting for it.
AttemptReturns(t) ==
    /\ ~(cancel_scope.task = t /\ cancel_scope.cancel_called)
    /\ AttemptCompletes(t)

CancelNext ==
    \/ AddTask
    \/ \E t \in TaskIds : TaskBegins(t)
    \/ \E t \in TaskIds : AttemptReturns(t)
    \/ \E t \in TaskIds : AttemptTimesOut(t)
    \/ \E t \in TaskIds : AttemptCancelled(t)
    \/ CancelCurrentTask

CancelSpec == Init /\ [][CancelNext]_vars

\* The ServerQueue as a value: the list, the tasks, is_busy, queue_ended and
\* the arguments of the tasks added by set_statements.
QueueState ==
    [queue |-> queue, tasks |-> tasks, is_busy |-> is_busy,
     queue_ended |-> queue_ended, args |-> args]

\* next_task (lines 124-138) on the queue S.
next_task_in(S) ==
    IF Len(S.queue) > 0
    THEN [S EXCEPT !.queue = Front(S.queue),
                   !.tasks[Last(S.queue)].state = "scheduled"]
    ELSE [S EXCEPT !.is_busy = FALSE, !.queue_ended = "set"]

\* add_task(fct, *a, cancel_fct=cancel_fct, on_top=on_top) (lines 106-122)
\* on the queue S.
add_task_in(S, a, cancel_fct, on_top) ==
    LET t == Len(S.tasks) + 1
        S1 == [S EXCEPT
                 !.queue = put_in_list(S.queue, t, on_top),
                 !.tasks = Append(S.tasks,
                     [NewTask(cancel_fct, on_top)
                         EXCEPT !.waiting = Range(S.queue)]),
                 !.args = [u \in DOMAIN S.args \cup {t} |->
                              IF u = t THEN a ELSE S.args[u]]]
    IN  IF ~S.is_busy
        THEN next_task_in([S1 EXCEPT !.is_busy = TRUE,
                                     !.queue_ended = "unset"])
        ELSE S1

\* The statements handed over by call number c of set_statements, whose
\* list had n statements.
Statements(c, n, l) == [call |-> c, of |-> n, statements |-> l]

\* set_statements(course, statements, on_top) (lines 1110-1133) on the queue
\* S; the statements are numbered by their place in the list, c and n are
\* history.
RECURSIVE set_statements(_, _, _, _, _)
set_statements(S, c, n, statements, on_top) ==
    IF Len(statements) <= MAX_CAPACITY
    THEN add_task_in(S, Statements(c, n, statements), FALSE, on_top)
    ELSE set_statements(
             set_statements(S, c, n, SubSeq(statements, 1, MAX_CAPACITY),
                            on_top),
             c, n, SubSeq(statements, MAX_CAPACITY + 1, Len(statements)),
             on_top)

\* The calls of set_statements made so far.
Calls == {args[t].call : t \in DOMAIN args}

SetStatements(n, on_top) ==
    LET S == set_statements(QueueState, Cardinality(Calls) + 1, n,
                            [i \in 1..n |-> i], on_top)
    IN  /\ Cardinality(Calls) < MaxSets
        /\ Len(S.tasks) <= MaxTasks
        /\ queue' = S.queue
        /\ tasks' = S.tasks
        /\ is_busy' = S.is_busy
        /\ queue_ended' = S.queue_ended
        /\ args' = S.args
        /\ last_call' = [op |-> "set_statements", arg |-> n, raised |-> "no"]
        /\ UNCHANGED <<started, actual_timeout, startOrder, emitted>>
        /\ UNCHANGED svars
        /\ UNCHANGED tvars
        /\ UNCHANGED cvars

StatementsNext ==
    \/ \E n \in 0..MaxStatements, on_top \in BOOLEAN : SetStatements(n, on_top)
    \/ AddTask
    \/ \E t \in TaskIds : TaskBegins(t)
    \/ \E t \in TaskIds : AttemptCompletes(t)

StatementsSpec == Init /\ [][StatementsNext]_vars

\* The task steps the nursery and trio's clock guarantee: a coroutine handed
\* to start_soon is begun, and an attempt ends (fct returns or raises, or the
\* cancel scope expires).
TaskStep ==
    \E t \in TaskIds :
        \/ TaskBegins(t)
        \/ AttemptCompletes(t)
        \/ AttemptTimesOut(t)
        \/ AttemptTypeError(t)
        \/ AttemptRaises(t)

FairSpec == Spec /\ WF_vars(TaskStep)

\* ============================================================== claims

\* Position of task t in startOrder, 0 when it has not begun.
Pos(t) ==
    IF t \in Range(startOrder)
    THEN CHOOSE i \in 1..Len(startOrder) : startOrder[i] = t
    ELSE 0

\* The attempts of t that have ended.
Closed(t) == {i \in 1..Len(tasks[t].attempts) :
                 tasks[t].attempts[i].outcome # "pending"}

\* C1: at every instant at most one task of the ServerQueue is scheduled or
\* executing, and the queue is busy while one is.
C1_SingleFlight ==
    /\ Cardinality(Scheduled \cup Executing) <= 1
    /\ (Scheduled \cup Executing # {}) => is_busy

C1_Witness ==
    /\ Cardinality(Executing) = 1
    /\ Len(queue) >= 2

\* C2: tasks added without on_top begin in the order they were added; a task
\* added on top begins before every task that was waiting when it was added;
\* adding a task changes nothing of a task that is executing.
C2_StartOrder ==
    /\ [](/\ \A a, b \in TaskIds :
               (a < b /\ ~tasks[a].on_top /\ ~tasks[b].on_top /\ Pos(b) # 0)
                   => (Pos(a) # 0 /\ Pos(a) < Pos(b))
          /\ \A t \in TaskIds : \A w \in tasks[t].waiting :
               (tasks[t].on_top /\ Pos(w) # 0)
                   => (Pos(t) # 0 /\ Pos(t) < Pos(w)))
    /\ [][Len(tasks') > Len(tasks)
             => \A u \in Executing : tasks'[u] = tasks[u]]_vars

C2_Witness ==
    \E t, w \in TaskIds :
        /\ tasks[t].on_top /\ ~tasks[w].on_top
        /\ w \in tasks[t].waiting
        /\ Pos(t) # 0 /\ Pos(w) # 0

\* A task all of whose attempts ended without an answer, and that is over.
NeverAnswered(t) ==
    /\ tasks[t].state = "done"
    /\ \A i \in 1..Len(tasks[t].attempts) :
           tasks[t].attempts[i].outcome = "no_answer"

\* C3: a task that never answers is attempted exactly NB_TRIALS times, each
\* attempt with twice the timeout of the one before, and the timeout error is
\* emitted exactly once for it, after the last attempt.
C3_RetryBound ==
    /\ \A t \in TaskIds : NeverAnswered(t) =>
           /\ Len(tasks[t].attempts) = NB_TRIALS
           /\ \A i \in 2..NB_TRIALS :
                  /\ tasks[t].attempts[i].timeout
                         = 2 * tasks[t].attempts[i - 1].timeout
                  /\ tasks[t].attempts[i].timeout
                         > tasks[t].attempts[i - 1].timeout
           /\ \A i \in 1..NB_TRIALS :
                  tasks[t].attempts[i].signals
                      = IF i = NB_TRIALS THEN 1 ELSE 0
    /\ Len(emitted) = Cardinality({t \in TaskIds : NeverAnswered(t)})

C3_Witness ==
    \E t \in TaskIds : NeverAnswered(t) /\ t > 1

\* C4: cancel_fct is called exactly once after each attempt that gets no
\* answer and is followed by another attempt, never after the last attempt
\* and never after an attempt that completes in time.
C4_CancelOnRetry ==
    \A t \in TaskIds : \A i \in Closed(t) :
        LET a == tasks[t].attempts[i]
        IN  /\ (tasks[t].cancel_fct /\ a.outcome = "no_answer"
                    /\ i < Len(tasks[t].attempts))
                   => a.cancel_calls = 1
            /\ i = NB_TRIALS => a.cancel_calls = 0
            /\ a.outcome = "done" => a.cancel_calls = 0
            /\ a.cancel_calls > 0 => i < Len(tasks[t].attempts)

C4_Witness ==
    \E t \in TaskIds :
        /\ tasks[t].cancel_fct
        /\ tasks[t].state = "done"
        /\ Len(tasks[t].attempts) = NB_TRIALS
        /\ tasks[t].attempts[1].cancel_calls = 1
        /\ tasks[t].attempts[NB_TRIALS].outcome = "no_answer"

\* The step in which task t uses up its last attempt without an answer.
Abandoned(t) ==
    /\ tasks[t].state = "await"
    /\ tasks[t].nb = NB_TRIALS
    /\ tasks'[t].attempts[NB_TRIALS].outcome = "no_answer"

\* C5: when a task has used its NB_TRIALS attempts without completing, it is
\* over for good, a LeanResponse with error type 3 is emitted, and the next
\* waiting task, if any, is started.
C5_Abandon ==
    /\ [][\A t \in TaskIds : Abandoned(t) =>
             /\ tasks'[t].state = "done"
             /\ Len(emitted') = Len(emitted) + 1
             /\ emitted'[Len(emitted')].error_type = 3
             /\ IF queue # <<>>
                THEN /\ tasks'[Last(queue)].state = "scheduled"
                     /\ queue' = Front(queue)
                ELSE queue' = <<>> /\ Scheduled' = {}]_vars
    /\ [][\A t \in TaskIds : tasks[t].state = "done" =>
             tasks'[t] = tasks[t]]_vars

C5_Witness ==
    \E t \in TaskIds :
        /\ NeverAnswered(t)
        /\ \E u \in Scheduled : u > t

\* C6: the queue ends idle, is_busy False and queue_ended set, whatever the
\* tasks do (tasks are added finitely often).
C6_EventuallyIdle ==
    <>[](~is_busy /\ (tasks # <<>> => queue_ended = "set"))

C6_Witness ==
    \E t \in TaskIds : tasks[t].state = "crashed" /\ queue # <<>>

\* The requests that were removed from pending_requests.
Removed == {r \in 1..Len(requests) :
               \A k \in DOMAIN pending_requests : pending_requests[k] # r}

\* The step is __on_lean_message handling a message that carries seq.
Handles(seq) ==
    nb_msgs' = nb_msgs + 1 /\ last_call'.arg = seq

\* C7: every request in pending_requests is stored under the key equal to its
\* own seq_num.
C7_KeyIsSeqNum ==
    \A k \in DOMAIN pending_requests :
        requests[pending_requests[k]].seq_num = k

\* C8: a message carrying sequence number S changes the request registered
\* under S only, and so the error list delivered with a request's response
\* holds only errors that messages carrying that request's number brought.
C8_ErrorsOfOwnRequest ==
    \A i \in 1..Len(emitted) : emitted[i].req # NoReq =>
        \A j \in 1..Len(emitted[i].error_list) :
            emitted[i].error_list[j] = requests[emitted[i].req].seq_num

\* C9: handling a message whose sequence number is not a key of
\* pending_requests raises no error and leaves pending_requests and every
\* request unchanged.
C9_UnknownDropped ==
    [][\A seq \in MsgSeqs :
           (Handles(seq) /\ seq \notin DOMAIN pending_requests) =>
               /\ last_call'.raised = "no"
               /\ pending_requests' = pending_requests
               /\ requests' = requests]_vars

\* C10: a request is removed from pending_requests exactly when it is found
\* complete after one of its own messages was processed; its
\* proof_received_event is set then, and is set at most once; no request is
\* removed with its event unset.
C10_RemovedWhenComplete ==
    /\ [](\A r \in 1..Len(requests) :
              /\ requests[r].nb_set <= 1
              /\ (r \in Removed) <=> (requests[r].event = "set"))
    /\ [][\A k \in DOMAIN pending_requests :
              LET r == pending_requests[k]
              IN  (k \notin DOMAIN pending_requests')
                  <=> (/\ Handles(k)
                       /\ last_call'.raised = "no"
                       /\ is_complete(requests'[r]))]_vars
    /\ [][\A k \in DOMAIN pending_requests :
              LET r == pending_requests[k]
              IN  (k \notin DOMAIN pending_requests')
                  => (requests[r].event = "unset"
                      /\ requests'[r].event = "set")]_vars

C10_Witness ==
    \E r \in Removed :
        /\ requests[r].event = "set"
        /\ requests[r].hypo = 1
        /\ call.req = r

\* C11: handling an error message (not "no goals" / "unsolved goals") for a
\* pending ProofStep request, which puts it in the error channel, raises no
\* exception and releases the submitter: the request's event is set.
C11_ErrorReleases ==
    [][\A seq \in MsgSeqs :
           (Handles(seq) /\ Len(error_chan') > Len(error_chan)) =>
               /\ last_call'.raised = "no"
               /\ requests'[pending_requests[seq]].event = "set"]_vars

\* C12: the first attempt of a task has timeout STARTING_TIMEOUT when the task
\* is the first the queue ever began, and TIMEOUT otherwise.
C12_StartingTimeoutOnce ==
    \A t \in TaskIds : tasks[t].attempts # <<>> =>
        tasks[t].attempts[1].timeout
            = IF Pos(t) = 1 THEN STARTING_TIMEOUT ELSE TIMEOUT

\* C13: an attempt that ends by an error of the task function is handled as
\* one that times out: the timeout is doubled, and the task goes on to its
\* next attempt or is over, the queue proceeding.
C13_ErrorLikeTimeout ==
    [][\A t \in TaskIds :
           (/\ tasks[t].state = "await"
            /\ tasks'[t].attempts[tasks[t].nb].outcome \in {"no_answer", "error"})
           => /\ actual_timeout' = 2 * actual_timeout
              /\ IF tasks[t].nb < NB_TRIALS
                 THEN tasks'[t].state = "await" /\ tasks'[t].nb = tasks[t].nb + 1
                 ELSE tasks'[t].state = "done"
                      /\ Len(emitted') = Len(emitted) + 1]_vars

\* The nodes of the tree with a cursor position.
Marked(T) == {n \in Descendants(T, Root) : T[n].cursor_pos # NoPos}

\* C14: after any sequence of insert, generic_insert, clear_marked_mvar and
\* cursor moves applied to a tree with one marked node, exactly one node of
\* the tree has a cursor position that is not None.
C14_OneMarked == Cardinality(Marked(tree)) = 1

\* insert returned None.
InsertFailed == tcall'.op = "insert" /\ tcall'.raised = "no" /\ tcall'.res = 0

\* C15: if insert(new_pmo) fails (returns None), the tree is unchanged: the
\* kind and the children of every node, the assignment of every metavariable
\* and the cursor position are what they were before the call.
C15_FailedInsertFrame == [][InsertFailed => tree' = tree]_vars

\* The metavariable n is assigned the NUMBER of value v.
IsNumber(T, n, v) ==
    /\ is_metavar(T, n) /\ is_assigned(T, n)
    /\ T[T[n].am].kind = "NUMBER" /\ T[T[n].am].value = v

\* The tree is SUM(2, 3) and the cursor is on its right operand.
AfterThreeOfSum(T) ==
    /\ is_assigned(T, Root) /\ node(T, Root) = "SUM"
    /\ IsNumber(T, children(T, Root)[1], <<"2">>)
    /\ IsNumber(T, children(T, Root)[2], <<"3">>)
    /\ Marked(T) = {children(T, Root)[2]}

\* The tree is SUM(2, MULT(3, ?)).
SumOfTwoAndProduct(T) ==
    /\ is_assigned(T, Root) /\ node(T, Root) = "SUM"
    /\ IsNumber(T, children(T, Root)[1], <<"2">>)
    /\ is_assigned(T, children(T, Root)[2])
    /\ node(T, children(T, Root)[2]) = "MULT"
    /\ IsNumber(T, children(T, children(T, Root)[2])[1], <<"3">>)
    /\ is_metavar(T, children(T, children(T, Root)[2])[2])
    /\ ~is_assigned(T, children(T, children(T, Root)[2])[2])

\* C16: inserting a MULT pattern with the cursor just after the right operand
\* 3 of SUM(2, 3) yields SUM(2, MULT(3, ?)).
C16_MultBindsTighter ==
    [][(AfterThreeOfSum(tree) /\ tcall'.op = "insert" /\ tcall'.frag = "MULT")
          => SumOfTwoAndProduct(tree')]_vars

\* The first unassigned metavariable of a list of nodes; 0: none.
RECURSIVE FirstFree(_, _)
FirstFree(T, items) ==
    IF items = <<>> THEN 0
    ELSE IF is_metavar(T, Head(items)) /\ ~is_assigned(T, Head(items))
    THEN Head(items)
    ELSE FirstFree(T, Tail(items))

\* Where the cursor is expected after an insertion at anchor.
ExpectedAfterInsert(T, anchor) ==
    IF FirstFree(T, ordered_children(T, anchor)) # 0
    THEN FirstFree(T, ordered_children(T, anchor))
    ELSE IF parent_of(T, Root, anchor) = 0 THEN anchor
    ELSE IF FirstFree(T, ordered_children(T, parent_of(T, Root, anchor))) # 0
    THEN FirstFree(T, ordered_children(T, parent_of(T, Root, anchor)))
    ELSE anchor

\* The nodes with a cursor position, those that an insertion that failed
\* has cut from the tree included.
WithCursor(T) == {n \in 1..Len(T) : T[n].cursor_pos # NoPos}

\* C17: after a successful insertion at an anchor followed by
\* move_after_insert(anchor), the cursor is on the first unassigned
\* metavariable child of the inserted pattern if there is one, otherwise on
\* the first unassigned metavariable among the children of the parent of the
\* anchor, otherwise on the anchor itself.
\* Only one node has a cursor position then, within the tree or not.
C17_CursorAfterInsert ==
    [][(tcall.op = "insert" /\ tcall.res # 0
           /\ tcall'.op = "move_after_insert")
          => /\ tcall'.raised = "no"
             /\ WithCursor(tree') = {ExpectedAfterInsert(tree, tcall.res)}
             /\ tcall'.res = ExpectedAfterInsert(tree, tcall.res)]_vars

\* The marked metavariable is assigned a NUMBER.
OnNumber(T) ==
    /\ marked_descendant(T, Root) # 0
    /\ is_metavar(T, marked_descendant(T, Root))
    /\ is_assigned(T, marked_descendant(T, Root))
    /\ T[T[marked_descendant(T, Root)].am].kind = "NUMBER"

\* The value of the NUMBER of the marked metavariable.
ValueAtCursor(T) == T[T[marked_descendant(T, Root)].am].value

\* The characters a pattern brings to a number.
Characters(frag) == IF frag = "POINT" THEN <<".">> ELSE <<frag>>

\* The nodes, cursor positions and values of numbers aside.
Skeleton(T) ==
    [n \in 1..Len(T) |-> [T[n] EXCEPT !.cursor_pos = NoPos, !.value = <<>>]]

\* The values of the numbers other than the one at the cursor.
OtherValues(T) ==
    [n \in (1..Len(T)) \ {T[marked_descendant(T, Root)].am} |-> T[n].value]

\* C18: generic_insert of a NUMBER of value v, or of a POINT, when the marked
\* metavariable is assigned a NUMBER of value u, replaces that value by u
\* followed by v, or by '.', without creating a node, and leaves the cursor
\* on that metavariable.
C18_NumberMerge ==
    [][(/\ tcall'.op = "generic_insert"
        /\ tcall'.frag \in Digits \cup {"POINT"}
        /\ OnNumber(tree)
        /\ tcall'.frag = "POINT" => Count(".", ValueAtCursor(tree)) = 0)
          => /\ tcall'.raised = "no"
             /\ tcall'.res = marked_descendant(tree, Root)
             /\ Marked(tree') = {marked_descendant(tree, Root)}
             /\ ValueAtCursor(tree')
                    = ValueAtCursor(tree) \o Characters(tcall'.frag)
             /\ Skeleton(tree') = Skeleton(tree)
             /\ OtherValues(tree') = OtherValues(tree)]_vars

\* A digit was merged into the number at the cursor, which has two
\* characters or more.
C18_Witness ==
    /\ tcall.op = "generic_insert" /\ tcall.frag \in Digits
    /\ tcall.res # 0 /\ OnNumber(tree)
    /\ tcall.res = marked_descendant(tree, Root)
    /\ Len(ValueAtCursor(tree)) > 1

\* C19: merging a POINT into a NUMBER whose value already contains '.' fails:
\* generic_insert returns None and the tree, with its values and its cursor,
\* is unchanged; and no NUMBER value ever contains more than one '.'.
C19_OnePoint ==
    /\ [][(/\ tcall'.op = "generic_insert" /\ tcall'.frag = "POINT"
            /\ OnNumber(tree)
            /\ Count(".", ValueAtCursor(tree)) > 0)
              => /\ tcall'.raised = "no" /\ tcall'.res = 0
                 /\ tree' = tree]_vars
    /\ [](\A n \in 1..Len(tree) : Count(".", tree[n].value) < 2)

\* A POINT was refused by the number at the cursor, which has one already.
C19_Witness ==
    /\ tcall.op = "generic_insert" /\ tcall.frag = "POINT"
    /\ tcall.res = 0 /\ tcall.raised = "no"
    /\ OnNumber(tree)
    /\ Count(".", ValueAtCursor(tree)) = 1

\* C20: insert and generic_insert report failure through their return value
\* only and never raise an exception.
C20_NeverRaise ==
    [][tcall'.op \in {"insert", "generic_insert"}
          => tcall'.raised = "no"]_vars

\* insert failed, and generic_insert is called with the same pattern, which
\* is not a number.
ForcedAfterFailure ==
    /\ tcall.op = "insert" /\ tcall.raised = "no" /\ tcall.res = 0
    /\ tcall'.op = "generic_insert" /\ tcall'.frag = tcall.frag
    /\ tcall.frag \notin Digits \cup {"POINT"}
    /\ Marked(tree) # {}

\* C21: when insert has failed at both anchors and their ancestors,
\* generic_insert of a pattern that is not a number succeeds: it returns the
\* marked node, and the tree has a GENERIC_NODE whose two children are the
\* former value of the anchor and the pattern.
C21_ForcedInsertion ==
    [][ForcedAfterFailure
          => /\ tcall'.raised = "no" /\ tcall'.res # 0
             /\ tcall'.res \in Marked(tree')
             /\ \E n \in Descendants(tree', Root) :
                    node(tree', n) = "GENERIC_NODE"]_vars

\* C22: current_index_in_total_list returns the index of the marked node and
\* its cursor position in the present total_and_cursor_list (-1 when the
\* cursor is before the beginning), after any sequence of moves, insertions
\* and deletions.
C22_IndexIsCurrent ==
    (Marked(tree) # {} /\ ~index_raises(tree, cache))
        => current_index_in_total_list(tree, cache) = computed_index(tree)

\* The marked node and its cursor position.
MarkedPair(T) == marked_pair(T, marked_descendant(T, Root))

\* The element of total_and_cursor_list that follows the marked one, and the
\* marked one itself when it is the last.
Following(T) ==
    IF computed_index(T) < Len(total_and_cursor_list(T, Root)) - 1
    THEN total_and_cursor_list(T, Root)[computed_index(T) + 2]
    ELSE MarkedPair(T)

\* The element that precedes the marked one, and the position before the
\* beginning when it is the first, or when the cursor is there already.
Preceding(T) ==
    IF computed_index(T) > 0
    THEN total_and_cursor_list(T, Root)[computed_index(T)]
    ELSE <<Root, -1>>

\* C23: increase_cursor_pos moves the mark to the element that follows the
\* marked one in total_and_cursor_list and leaves the cursor where it is on
\* the last element; decrease_cursor_pos moves it to the element that
\* precedes, and to the position before the beginning (root, -1) from the
\* first element or from that position.
C23_AdjacentElement ==
    [][(Marked(tree) # {}
          /\ tcall'.op \in {"increase_cursor_pos", "decrease_cursor_pos"})
          => /\ tcall'.raised = "no"
             /\ Marked(tree') # {}
             /\ MarkedPair(tree') =
                   IF tcall'.op = "increase_cursor_pos"
                   THEN Following(tree) ELSE Preceding(tree)]_vars

\* The step is go_to_beginning or go_to_end on a tree that has a marked node.
BeginningOrEnd ==
    /\ Marked(tree) # {}
    /\ tcall'.op \in {"go_to_beginning", "go_to_end"}

\* C24: after go_to_beginning the marked position is the first element of
\* total_and_cursor_list, and after go_to_end it is the last one.
C24_FirstAndLast ==
    [][BeginningOrEnd
          => MarkedPair(tree') =
                IF tcall'.op = "go_to_beginning"
                THEN Head(total_and_cursor_list(tree', Root))
                ELSE Last(total_and_cursor_list(tree', Root))]_vars

\* The places of total_list, among from..to, of the metavariables that have
\* no assigned object.
FreePlaces(T, from, to) ==
    {j \in from..to : /\ j \in 1..Len(total_list(T))
                      /\ is_metavar(T, total_list(T)[j])
                      /\ ~is_assigned(T, total_list(T)[j])}

\* The nearest unassigned metavariable after the cursor, and before it; 0
\* when there is none.
NearestAfter(T) ==
    IF FreePlaces(T, computed_index(T) + 2, Len(total_list(T))) = {} THEN 0
    ELSE total_list(T)[Min(FreePlaces(T, computed_index(T) + 2,
                                      Len(total_list(T))))]

NearestBefore(T) ==
    IF FreePlaces(T, 1, computed_index(T)) = {} THEN 0
    ELSE total_list(T)[Max(FreePlaces(T, 1, computed_index(T)))]

\* The node that the move is expected to mark.
NearestUnassigned(T, op) ==
    IF op = "move_right_to_next_unassigned"
    THEN NearestAfter(T) ELSE NearestBefore(T)

\* C25: move_right_to_next_unassigned marks the nearest element after the
\* cursor in total_and_cursor_list that is a metavariable with no assigned
\* object, and returns it; when there is none the cursor is unchanged and
\* None is returned; likewise for move_left_to_previous_unassigned before
\* the cursor. The mark is never put on a node that is not an unassigned
\* metavariable.
C25_NearestUnassigned ==
    [][(/\ Marked(tree) # {}
        /\ tcall'.op \in {"move_right_to_next_unassigned",
                          "move_left_to_previous_unassigned"})
          => /\ tcall'.raised = "no"
             /\ tcall'.res = NearestUnassigned(tree, tcall'.op)
             /\ IF tcall'.res = 0 THEN tree' = tree
                ELSE /\ Marked(tree') = {tcall'.res}
                     /\ is_metavar(tree', tcall'.res)
                     /\ ~is_assigned(tree', tcall'.res)]_vars

\* The node that carries the cursor, when there is one only.
TheMarked(T) == CHOOSE n \in Marked(T) : TRUE

\* The nodes of which n is a child.
ParentsOf(T, n) ==
    {p \in Descendants(T, Root) : \E i \in 1..Len(children(T, p)) :
                                     children(T, p)[i] = n}

\* C26: move_up moves the mark from the marked node to its immediate parent
\* in the tree, with the cursor at the main symbol of the parent, and returns
\* the parent; when the marked node is the root the cursor is unchanged and
\* nothing is returned.
C26_MoveUp ==
    [][(Cardinality(Marked(tree)) = 1 /\ tcall'.op = "move_up")
          => /\ tcall'.raised = "no"
             /\ IF TheMarked(tree) = Root
                THEN tree' = tree /\ tcall'.res = 0
                ELSE /\ ParentsOf(tree, TheMarked(tree)) = {tcall'.res}
                     /\ Marked(tree') = {tcall'.res}
                     /\ tree'[tcall'.res].cursor_pos
                           = main_shape_symbol(tree, tcall'.res)
                     /\ Skeleton(tree') = Skeleton(tree)]_vars

\* The object displayed by an item of the total list: the object assigned to
\* a metavariable (0 when it has none), the node itself otherwise.
ObjectOf(T, n) == IF T[n].mv THEN T[n].am ELSE n

\* What the tree displays, from left to right: the objects and, for each,
\* the rank of the symbol in its shape; the empty places are left out.
RECURSIVE ContentOf(_, _)
ContentOf(T, l) ==
    IF l = <<>> THEN <<>>
    ELSE IF ObjectOf(T, Head(l)[1]) = 0 THEN ContentOf(T, Tail(l))
    ELSE << <<ObjectOf(T, Head(l)[1]), Head(l)[2]>> >>
             \o ContentOf(T, Tail(l))

Content(T) == ContentOf(T, total_and_cursor_list(T, Root))

\* The part of a content that is made of the objects 1..size.
RECURSIVE Among(_, _)
Among(content, size) ==
    IF content = <<>> THEN <<>>
    ELSE IF Head(content)[1] <= size
    THEN <<Head(content)>> \o Among(Tail(content), size)
    ELSE Among(Tail(content), size)

\* What is displayed left of the cursor: the items up to the marked one.
LeftOfCursor(T) ==
    ContentOf(T, SubSeq(total_and_cursor_list(T, Root), 1,
                        computed_index(T) + 1))

\* The main symbol of the pattern that an insertion has copied after the
\* size nodes of the tree, and what is displayed before it.
NewSymbol(T, size) == <<size + 1, main_shape_symbol(T, size + 1)>>

BeforeNewSymbol(T, size) ==
    SubSeq(Content(T), 1, index_of(NewSymbol(T, size), Content(T)))

\* C27: after a successful insert, the values that were in the tree are
\* displayed in the same order, none is lost or duplicated, and the symbol
\* of the pattern is just after the place the cursor had: after what was
\* left of the cursor and before what was right of it.
C27_OrderPreserved ==
    [][(/\ marked_descendant(tree, Root) # 0
        /\ tcall'.op = "insert" /\ tcall'.raised = "no" /\ tcall'.res # 0)
          => /\ Among(Content(tree'), Len(tree)) = Content(tree)
             /\ index_of(NewSymbol(tree', Len(tree)), Content(tree')) >= 0
             /\ Among(BeforeNewSymbol(tree', Len(tree)), Len(tree))
                   = LeftOfCursor(tree)]_vars

\* The metavariables of the tree.
Metavars(T) == {n \in Descendants(T, Root) : is_metavar(T, n)}

\* The places of the symbols of p in what it displays.
SymbolPlaces(T, p) ==
    {i \in 1..Len(ordered_children(T, p)) : ordered_children(T, p)[i] = p}

\* m is displayed before the first symbol of p, or after its last one.
IsLeftChild(T, p, m) ==
    /\ SymbolPlaces(T, p) # {}
    /\ \E i \in 1..Len(ordered_children(T, p)) :
          ordered_children(T, p)[i] = m /\ i < Min(SymbolPlaces(T, p))

IsRightChild(T, p, m) ==
    /\ SymbolPlaces(T, p) # {}
    /\ \E i \in 1..Len(ordered_children(T, p)) :
          ordered_children(T, p)[i] = m /\ i > Max(SymbolPlaces(T, p))

\* The node of a pattern.
NodeOf(frag) == deep_copy(frag, 0)[1].kind

\* The operator of p binds tighter than the pattern's: it is in an earlier
\* class of the table; or as tightly: it is in the same class.
BindsTighter(T, p, frag) ==
    /\ level(node(T, p)) > 0 /\ level(NodeOf(frag)) > 0
    /\ level(node(T, p)) < level(NodeOf(frag))

BindsAsTightly(T, p, frag) ==
    /\ level(node(T, p)) > 0
    /\ level(node(T, p)) = level(NodeOf(frag))

\* The pattern cannot take the place of m under the parent p of m.
MustReject(T, p, m, frag) ==
    /\ p # 0
    /\ \/ IsLeftChild(T, p, m) /\ BindsTighter(T, p, frag)
       \/ /\ IsRightChild(T, p, m)
          /\ BindsTighter(T, p, frag) \/ BindsAsTightly(T, p, frag)

\* The test of the parent has nothing to say.
NoConstraint(T, p, m, frag) ==
    \/ p = 0
    \/ ~IsLeftChild(T, p, m) /\ ~IsRightChild(T, p, m)
    \/ level(node(T, p)) = 0
    \/ level(NodeOf(frag)) = 0

\* insert_if_you_can(pattern, m, parent of m), the pattern being copied after
\* the nodes of the tree.
Attempt(T, c, frag, m) ==
    insert_if_you_can(T \o deep_copy(frag, Len(T)), c, Len(T) + 1, m,
                      parent_of(T, Root, m))

\* C28: insert_if_you_can rejects the pattern when the anchor is a left child
\* of its parent and the parent's operator binds strictly tighter than the
\* pattern's, or when the anchor is a right child and the parent's operator
\* binds tighter or as tightly; an anchor that has no parent, is a central
\* child, or whose parent's operator is not comparable with the pattern's is
\* never rejected by this test.
C28_ParentPriority ==
    marked_descendant(tree, Root) # 0
        => \A m \in Metavars(tree) : \A frag \in Patterns :
              /\ MustReject(tree, parent_of(tree, Root, m), m, frag)
                    => /\ ~Attempt(tree, cache, frag, m).ok
                       /\ Attempt(tree, cache, frag, m).raised = "no"
                       /\ Attempt(tree, cache, frag, m).T
                             = tree \o deep_copy(frag, Len(tree))
              /\ NoConstraint(tree, parent_of(tree, Root, m), m, frag)
                    => child_of_parent_test(
                           tree \o deep_copy(frag, Len(tree)),
                           Len(tree) + 1, m, parent_of(tree, Root, m))

\* The tree has a right operand of a sum, where a sum is rejected, the left
\* operand of a product, where a sum is rejected, and a metavariable under a
\* set, which is no operand.
C28_Witness ==
    /\ marked_descendant(tree, Root) # 0
    /\ \E m \in Metavars(tree) :
          /\ parent_of(tree, Root, m) # 0
          /\ IsRightChild(tree, parent_of(tree, Root, m), m)
          /\ BindsAsTightly(tree, parent_of(tree, Root, m), "SUM")
          /\ ~Attempt(tree, cache, "SUM", m).ok
    /\ \E m \in Metavars(tree) :
          /\ parent_of(tree, Root, m) # 0
          /\ IsLeftChild(tree, parent_of(tree, Root, m), m)
          /\ BindsTighter(tree, parent_of(tree, Root, m), "SUM")
          /\ ~Attempt(tree, cache, "SUM", m).ok

\* What priority answers by the classes of the two nodes.
ByClass(a, b) ==
    IF a = "" \/ b = "" \/ level(a) = 0 \/ level(b) = 0 THEN "None"
    ELSE IF level(a) = level(b) THEN "="
    ELSE IF level(a) < level(b) THEN ">"
    ELSE "<"

\* C29: priority(a, b) is '=' when a and b are in the same class of the
\* table, '>' when the class of a is listed before that of b, '<' when it is
\* listed after, and None when a or b is empty or in no class; priority(a, b)
\* is '>' exactly when priority(b, a) is '<', and '=' exactly when
\* priority(b, a) is '='.
C29_PriorityTable ==
    tcall.op = "priority"
        => /\ tcall.res = ByClass(tcall.frag[1], tcall.frag[2])
           /\ tcall.res = ">" <=> priority(tcall.frag[2], tcall.frag[1]) = "<"
           /\ tcall.res = "=" <=> priority(tcall.frag[2], tcall.frag[1]) = "="

\* priority has been asked about a sum and a product, in this order.
C29_Witness ==
    /\ tcall.op = "priority"
    /\ tcall.frag = <<"SUM", "MULT">>
    /\ tcall.res = "<"

\* insert_if_you_can has just been called on an unassigned metavariable of the
\* tree where the priority tests pass.
TestsPassed ==
    /\ tcall'.op = "insert_if_you_can"
    /\ tcall'.raised = "no"
    /\ is_metavar(tree, tcall'.mvar)
    /\ ~is_assigned(tree, tcall'.mvar)
    /\ priority_tests(tree \o deep_copy(tcall'.frag, Len(tree)),
                      total_list(tree),
                      current_index_in_total_list(tree, cache),
                      Len(tree) + 1, tcall'.mvar,
                      parent_of(tree, Root, tcall'.mvar))

\* C30: with check_types False, once the priority tests pass on an unassigned
\* anchor, insert_if_you_can succeeds and the object of the anchor is the
\* fragment, whether the fragment matches the anchor or not; with check_types
\* True, a final match that fails makes the insertion fail and the fragment
\* is not the object of the anchor.
C30_AssignAnyway ==
    [][TestsPassed
         => /\ ~tcall'.check_types
                  => /\ tcall'.res
                     /\ Len(tree') > Len(tree)
                     /\ tree'[tcall'.mvar].am = Len(tree) + 1
            /\ tcall'.check_types /\ ~tcall'.matches
                  => /\ ~tcall'.res
                     /\ tree'[tcall'.mvar].am = 0
                     /\ tree' = tree]_vars

\* A fragment that does not match has been assigned to an unassigned anchor.
C30_Witness ==
    /\ tcall.op = "insert_if_you_can"
    /\ ~tcall.check_types /\ ~tcall.matches
    /\ tcall.res
    /\ tree[tcall.mvar].am # 0
    /\ tree[tree[tcall.mvar].am].kind = "SUM"

\* The nodes of the copy of the pattern are as deep_copy made them.
CopyClean(T, size, frag) ==
    SubSeq(T, size + 1, Len(T)) = deep_copy(frag, size)

\* The copy is clean at each attempt of the loops of insert: a walk through
\* the attempts of try_anchors.
RECURSIVE CleanAtEachTry(_, _, _, _, _, _, _, _)
CleanAfterTry(try, c, size, new_pmo, parent_mvar, anchors, frag) ==
    IF try.raised # "no" \/ try.ok THEN TRUE
    ELSE CleanAtEachTry(try.T, c, size, new_pmo, parent_mvar,
                        parent_of(try.T, Root, parent_mvar), anchors, frag)

CleanAtEachTry(T, c, size, new_pmo, mvar, parent_mvar, anchors, frag) ==
    IF mvar = 0
    THEN IF anchors = <<>> THEN CopyClean(T, size, frag)
         ELSE CleanAtEachTry(T, c, size, new_pmo, Head(anchors),
                             parent_of(T, Root, Head(anchors)),
                             Tail(anchors), frag)
    ELSE /\ CopyClean(T, size, frag)
         /\ CleanAfterTry(insert_if_you_can(T, c, new_pmo, mvar, parent_mvar),
                          c, size, new_pmo, parent_mvar, anchors, frag)

AroundCursor(T) ==
    {x \in Descendants(T, Root) :
        /\ marked_descendant(T, Root) # 0
        /\ marked_descendant(T, Root) \in Descendants(T, x)}

\* The places of x in the total list, the first place being 0.
PlacesOf(l, x) == {i - 1 : i \in {j \in 1..Len(l) : l[j] = x}}

\* C32: a node appears both left and right of the cursor only if it is the
\* marked node or one of its ancestors; every other node of the total list is
\* on one side only: on the left when its places in the list are not after
\* the place of the cursor, on the right when they are after it.
C32_SidesOfCursor ==
    ~index_raises(tree, cache)
        => \A x \in Range(total_list(tree)) :
              /\ (/\ appears_left_of_cursor(
                         tree, current_index_in_total_list(tree, cache), x)
                  /\ appears_right_of_cursor(
                         tree, current_index_in_total_list(tree, cache), x))
                     => x \in AroundCursor(tree)
              /\ x \notin AroundCursor(tree)
                     => /\ appears_left_of_cursor(
                               tree, current_index_in_total_list(tree, cache),
                               x)
                           <=> \A i \in PlacesOf(total_list(tree), x) :
                                  i <= computed_index(tree)
                        /\ appears_right_of_cursor(
                               tree, current_index_in_total_list(tree, cache),
                               x)
                           <=> \A i \in PlacesOf(total_list(tree), x) :
                                  i > computed_index(tree)

\* The cursor numbers of the list of n.
cursor_list(T, n) ==
    Tuple([i \in 1..Len(total_and_cursor_list(T, n)) |->
              total_and_cursor_list(T, n)[i][2]])

\* The nodes of the list of n.
node_list(T, n) == Firsts(total_and_cursor_list(T, n))

\* What the i-th item of ordered_children takes in the list of n: one place
\* for n itself, the whole list of a child.
Width(T, n, i) ==
    IF ordered_children(T, n)[i] = n THEN 1
    ELSE Len(total_and_cursor_list(T, ordered_children(T, n)[i]))

\* Where the i-th item of ordered_children starts in the list of n.
RECURSIVE StartOf(_, _, _)
StartOf(T, n, i) ==
    IF i = 1 THEN 0 ELSE StartOf(T, n, i - 1) + Width(T, n, i - 1)

\* The list of n is its ordered_children, each child replaced by its list and
\* each item that is n paired with its index in ordered_children.
IsExpansion(T, n) ==
    /\ Len(node_list(T, n)) = Len(cursor_list(T, n))
    /\ Len(node_list(T, n))
           = StartOf(T, n, Len(ordered_children(T, n)))
                 + Width(T, n, Len(ordered_children(T, n)))
    /\ \A i \in 1..Len(ordered_children(T, n)) :
          IF ordered_children(T, n)[i] = n
          THEN /\ node_list(T, n)[StartOf(T, n, i) + 1] = n
               /\ cursor_list(T, n)[StartOf(T, n, i) + 1] = i - 1
          ELSE /\ SubSeq(node_list(T, n), StartOf(T, n, i) + 1,
                         StartOf(T, n, i) + Width(T, n, i))
                      = node_list(T, ordered_children(T, n)[i])
               /\ SubSeq(cursor_list(T, n), StartOf(T, n, i) + 1,
                         StartOf(T, n, i) + Width(T, n, i))
                      = cursor_list(T, ordered_children(T, n)[i])

\* generic_parentheses (lines 990-1000) with an empty child: the node and its
\* metavariable mv0.
Parentheses == <<PMO("GENERIC_PARENTHESES", <<2>>, <<>>), MarkedMetavar>>

\* C33: total_and_cursor_list returns a list of nodes and a list of cursor
\* numbers of the same length, which are ordered_children with each proper
\* child replaced by its own lists, in order, and each own occurrence of the
\* node paired with the index of that occurrence in ordered_children; for
\* parentheses with one child mv0 the nodes are (self, mv0, self) and the
\* cursor numbers (0, 0, 2).
C33_TotalAndCursorList ==
    /\ \A n \in Descendants(tree, Root) : IsExpansion(tree, n)
    /\ node_list(Parentheses, 1) = <<1, 2, 1>>
    /\ cursor_list(Parentheses, 1) = <<0, 0, 2>>

\* The tree has a quantifier, with its three symbols at 0, 2 and 4, whose
\* first operand is a sum.
C33_Witness ==
    \E n \in Descendants(tree, Root) :
        /\ node(tree, n) = "QUANT_FORALL"
        /\ Len(node_list(tree, n)) > 8
        /\ cursor_list(tree, n)[1] = 0
        /\ \E i \in 1..Len(node_list(tree, n)) :
              node_list(tree, n)[i] = n /\ cursor_list(tree, n)[i] = 4

\* The place in the total list of position 0 of the metavariable mvar once it
\* is emptied.
PlaceOfEmptied(T, mvar) ==
    index_of(<<mvar, 0>>, total_and_cursor_list(delete(T, mvar), Root))

\* The element one place to the left of position 0 of the emptied mvar: the
\* beginning of the tree when there is none.
LeftOfEmptied(T, mvar) ==
    IF PlaceOfEmptied(T, mvar) > 0
    THEN total_and_cursor_list(delete(T, mvar), Root)[PlaceOfEmptied(T, mvar)]
    ELSE <<Root, -1>>

\* C34: clear_marked_mvar on a marked metavariable that is assigned removes
\* its assignment, places the cursor one element to the left of position 0 of
\* the emptied metavariable and returns True; on a marked metavariable that
\* is not assigned it changes neither the tree nor the cursor.
C34_ClearMarked ==
    [][(/\ tcall'.op = "clear_marked_mvar"
        /\ marked_descendant(tree, Root) # 0
        /\ is_metavar(tree, marked_descendant(tree, Root)))
          => IF is_assigned(tree, marked_descendant(tree, Root))
             THEN /\ tcall'.raised = "no"
                  /\ tcall'.res = 1
                  /\ ~is_assigned(tree', marked_descendant(tree, Root))
                  /\ Marked(tree')
                        = {LeftOfEmptied(tree,
                                         marked_descendant(tree, Root))[1]}
                  /\ tree'[LeftOfEmptied(
                               tree, marked_descendant(tree, Root))[1]]
                         .cursor_pos
                        = LeftOfEmptied(tree,
                                        marked_descendant(tree, Root))[2]
             ELSE tree' = tree /\ tcall'.res = 0]_vars

\* C35: whenever is_busy is False no task is waiting and, if a task was ever
\* added, queue_ended is set; whenever is_busy is True, queue_ended is an
\* event that is not set. This holds after every add_task, next_task and end
\* of a task.
C35_BusyAndEnded ==
    /\ ~is_busy => /\ queue = <<>>
                   /\ tasks # <<>> => queue_ended = "set"
    /\ is_busy => queue_ended = "unset"

\* The queue has ended after two tasks, one of which had to wait.
C35_Witness ==
    /\ ~is_busy
    /\ Len(tasks) > 1
    /\ queue_ended = "set"
    /\ \E t \in 1..Len(tasks) : tasks[t].waiting # {} \/ tasks[t].on_top
    /\ \A t \in 1..Len(tasks) : tasks[t].state = "done"

\* The requests registered in pending_requests.
Pending == {pending_requests[k] : k \in DOMAIN pending_requests}

\* C36: when an attempt of a task ends (completed, timed out or abandoned),
\* the request that it registered is no longer in pending_requests; so
\* pending_requests never holds more than the request of the attempt in
\* flight, and a request whose attempt has ended receives no message.
C36_PendingIsInFlight ==
    /\ [][(call # NoCall /\ call' = NoCall) => call.req \notin Pending']_vars
    /\ [](Pending \subseteq (IF call = NoCall THEN {} ELSE {call.req}))
    /\ [][\A r \in 1..Len(requests) :
             requests'[r] # requests[r] => call # NoCall /\ r = call.req]_vars

\* The attempt that opened the cancel scope is in flight.
InFlight == cancel_scope.task \in Executing

\* A step of __on_lean_message or of __on_lean_state_change.
BackendActivity ==
    \/ nb_msgs' = nb_msgs + 1
    \/ /\ last_call'.op = "on_lean_state_change"
       /\ UNCHANGED <<qvars, svars, now>>

\* The attempt of task t in flight ends because nothing answered.
TimesOut(t) ==
    /\ t \in Executing
    /\ tasks'[t].attempts[tasks[t].nb].outcome = "no_answer"

\* C37: every backend message and every change of the backend's running
\* state received while an attempt is in flight, the message's sequence
\* number known or not, moves the deadline of that attempt to the current
\* time plus actual_timeout; an attempt times out only when actual_timeout
\* has passed since the last backend activity.
C37_DeadlineReset ==
    /\ [][BackendActivity /\ InFlight =>
            cancel_scope' =
                [cancel_scope EXCEPT !.deadline = now + actual_timeout]]_vars
    /\ [][\A t \in TaskIds :
            TimesOut(t) => now >= idle_since + actual_timeout]_vars

\* A message with an unknown sequence number arrived after the attempt began
\* and the deadline moved.
C37_Witness ==
    /\ InFlight
    /\ last_call.op = "on_lean_message"
    /\ last_call.raised = "AttributeError"
    /\ last_call.arg \notin DOMAIN pending_requests
    /\ lean_file # "None"
    /\ error_chan = <<>>
    /\ now > 0
    /\ idle_since = now
    /\ cancel_scope.deadline = now + actual_timeout

\* cancel_current_task was called on the scope of the attempt of task t,
\* which is in flight.
Cancelling(t) ==
    /\ t \in Executing
    /\ cancel_scope.task = t
    /\ cancel_scope.cancel_called

\* A step of cancel_current_task.
CancelStep ==
    /\ last_call' # last_call
    /\ last_call'.op = "cancel_current_task"

RECURSIVE ChunksFrom(_, _)
ChunksFrom(c, t) ==
    IF t > Len(tasks) THEN <<>>
    ELSE IF t \in DOMAIN args /\ args[t].call = c
         THEN <<t>> \o ChunksFrom(c, t + 1)
         ELSE ChunksFrom(c, t + 1)

ChunksOf(c) == ChunksFrom(c, 1)

\* The statements of the tasks l, one after the other.
RECURSIVE Joined(_)
Joined(l) ==
    IF l = <<>> THEN <<>> ELSE args[Head(l)].statements \o Joined(Tail(l))

\* The list given to the call whose tasks are l.
ListOf(l) == [i \in 1..args[Head(l)].of |-> i]

\* The tasks of l that have been started, in the order they were started.
StartedOf(l) == SelectSeq(startOrder, LAMBDA t : t \in Range(l))

\* C39: set_statements splits the list into consecutive chunks of at most
\* MAX_CAPACITY statements and adds one task per chunk, so that every
\* statement belongs to exactly one task, and the chunks are started in the
\* order of the list, whatever the length of the list and the value of
\* on_top.
C39_ChunksInOrder ==
    \A c \in Calls :
        LET l == ChunksOf(c)
        IN  /\ \A i \in 1..Len(l) :
                   Len(args[l[i]].statements) <= MAX_CAPACITY
            /\ Joined(l) = ListOf(l)
            /\ StartedOf(l) = SubSeq(l, 1, Len(StartedOf(l)))

====
